---- MODULE Spec2Model ----
(***************************************************************************)
(* Transcript-processing pipeline of medvextract:                          *)
(*   backend/processor/vet_transcript_processor.py  (the Celery job)       *)
(*   backend/models/schemas.py                      (VetInput, TaskStatus) *)
(*   backend/models/database.py                     (TranscriptResult)     *)
(*   backend/utils/resiliency.py                    (resilient, breaker)   *)
(*   backend/api/task.py                            (the two endpoints)    *)
(*                                                                         *)
(* A job is one execution of process_vet_transcript, which drives the      *)
(* coroutine _process_vet_transcript and, when that raises, fail_entry.    *)
(* asyncio.run is modelled as running the coroutine to completion (the     *)
(* name asyncio is taken to be bound in the module, as it is in            *)
(* backend/task.py:11; vet_transcript_processor.py itself has no import    *)
(* of it).  Jobs of different ids run on different workers, so their steps *)
(* interleave at every call to Redis, Postgres or the extraction service.  *)
(***************************************************************************)
EXTENDS Integers, Sequences, FiniteSets, TLC

(***************************************************************************)
(* Bounds                                                                  *)
(***************************************************************************)
MaxJobs == 2

Jobs == 1..MaxJobs

(***************************************************************************)
(* Python values, tagged by their runtime type.                            *)
(***************************************************************************)
PyNone == [t |-> "none"]
PyStr(s) == [t |-> "str", s |-> s]
PyInt(n) == [t |-> "int", n |-> n]
\* a member of an Enum class; mixin is "str" for class X(str, Enum), the
\* form of every enum of schemas.py, and "none" for a plain enum.Enum
PyEnum(mixin, v) == [t |-> "enum", mixin |-> mixin, v |-> v]
PyList(items) == [t |-> "list", items |-> items]
PyDict(kv) == [t |-> "dict", kv |-> kv]
\* a datetime.date, held as its isoformat()
PyDate(iso) == [t |-> "date", iso |-> iso]
\* a pydantic BaseModel instance
PyModel(cls, fields) == [t |-> "model", cls |-> cls, fields |-> fields]

\* isinstance(x, object): true of every value
isinstance_object(x) == x.t = x.t

\* isinstance(x, (str, int, float)): a member of a (str, Enum) class is a str
isinstance_str_int_float(x) ==
    \/ x.t \in {"str", "int", "float", "bool"}
    \/ x.t = "enum" /\ x.mixin = "str"

\* BaseModel.model_dump(): nested models become dicts, enum members are kept
RECURSIVE model_dump(_)
model_dump(obj) ==
    IF obj.t = "model"
    THEN PyDict([k \in DOMAIN obj.fields |-> model_dump(obj.fields[k])])
    ELSE IF obj.t = "list"
    THEN PyList([i \in 1..Len(obj.items) |-> model_dump(obj.items[i])])
    ELSE IF obj.t = "dict"
    THEN PyDict([k \in DOMAIN obj.kv |-> model_dump(obj.kv[k])])
    ELSE obj

\* sanitize_payload leaving an enum member as the wrapper {"value": v, "checks": []}
RECURSIVE sanitize_payload_Checked(_)
sanitize_payload_Checked(obj) ==
    IF obj.t = "dict"
    THEN IF "value" \in DOMAIN obj.kv /\ isinstance_str_int_float(obj.kv["value"])
         THEN obj.kv["value"]
         ELSE PyDict([k \in DOMAIN obj.kv |-> sanitize_payload_Checked(obj.kv[k])])
    ELSE IF obj.t = "list"
    THEN PyList([i \in 1..Len(obj.items) |-> sanitize_payload_Checked(obj.items[i])])
    ELSE IF obj.t = "enum"
    THEN PyDict([value |-> obj.v, checks |-> PyList(<<>>)])
    ELSE IF obj.t = "model"
    THEN sanitize_payload_Checked(model_dump(obj))
    ELSE obj

\* sanitize_payload of vet_transcript_processor.py
RECURSIVE sanitize_payload(_)
sanitize_payload(obj) ==
    IF obj.t = "dict"
    THEN IF "value" \in DOMAIN obj.kv /\ isinstance_str_int_float(obj.kv["value"])
         THEN obj.kv["value"]
         ELSE PyDict([k \in DOMAIN obj.kv |-> sanitize_payload(obj.kv[k])])
    ELSE IF obj.t = "list"
    THEN PyList([i \in 1..Len(obj.items) |-> sanitize_payload(obj.items[i])])
    ELSE IF obj.t = "enum"
    THEN obj.v
    ELSE IF obj.t = "model"
    THEN sanitize_payload(model_dump(obj))
    ELSE obj

\* str.lower() on the strings enum members of the model have as values
lower_case(s) ==
    CASE s = "oral" -> "oral"
      [] s = "ORAL" -> "oral"
      [] s = "TOPICAL" -> "topical"
      [] s = "HIGH" -> "high"
      [] s = "LOW" -> "low"
      [] s = "PENDING" -> "pending"
      [] s = "COMPLETED" -> "completed"
      [] s = "CANCELLED" -> "cancelled"
      [] s = "SOAP" -> "soap"
      [] s = "SHIFT_SUMMARY" -> "shift_summary"
      [] s = "LIFESTYLE" -> "lifestyle"
      [] s = "OTHER" -> "other"
      [] OTHER -> s

\* str.upper() on the strings enum members of the model have as values:
\* those written in capitals are their own image
upper(s) ==
    CASE s = "oral" -> "ORAL"
      [] OTHER -> s

\* hasattr(obj, 'model_dump'): of the values of the model, the pydantic models
hasattr_model_dump(obj) == obj.t = "model"

\* the exception a call raised, as a value the harness can hold
Exc(cls) == [t |-> "exc", cls |-> cls]

\* sanitize_payload of VetClient/payload_sanitizer.py (and of backend/task.py,
\* lines 129-149, the same text): an enum member becomes obj.value.upper(),
\* which raises AttributeError when obj.value is not a string; an exception
\* raised for an entry or an element leaves the whole call
RECURSIVE VetClient_sanitize_payload(_)
VetClient_sanitize_payload(obj) ==
    IF obj.t = "dict"
    THEN IF "value" \in DOMAIN obj.kv /\ isinstance_str_int_float(obj.kv["value"])
         THEN obj.kv["value"]
         ELSE LET kv == [k \in DOMAIN obj.kv |-> VetClient_sanitize_payload(obj.kv[k])]
              IN  IF \E k \in DOMAIN kv : kv[k].t = "exc"
                  THEN Exc("AttributeError")
                  ELSE PyDict(kv)
    ELSE IF obj.t = "list"
    THEN LET items == [i \in 1..Len(obj.items) |->
                          VetClient_sanitize_payload(obj.items[i])]
         IN  IF \E i \in 1..Len(items) : items[i].t = "exc"
             THEN Exc("AttributeError")
             ELSE PyList(items)
    ELSE IF obj.t = "enum"
    THEN IF obj.v.t = "str" THEN PyStr(upper(obj.v.s)) ELSE Exc("AttributeError")
    ELSE IF hasattr_model_dump(obj)
    THEN VetClient_sanitize_payload(model_dump(obj))
    ELSE obj

\* the JSON value json.dumps writes for obj: a (str, Enum) member is written
\* as its string, containers elementwise
RECURSIVE json_encode(_)
json_encode(obj) ==
    IF obj.t = "dict"
    THEN PyDict([k \in DOMAIN obj.kv |-> json_encode(obj.kv[k])])
    ELSE IF obj.t = "list"
    THEN PyList([i \in 1..Len(obj.items) |-> json_encode(obj.items[i])])
    ELSE IF obj.t = "enum"
    THEN json_encode(obj.v)
    ELSE obj

\* json.dumps(obj): a JSON text;  json.loads(text): the value it denotes
json_dumps(obj) == [json |-> json_encode(obj)]
json_loads(text) == text.json

(***************************************************************************)
(* schemas.py                                                              *)
(***************************************************************************)
\* the members of schemas.TaskStatus, the class the job module imports
TaskStatus == {"PENDING", "COMPLETED", "CANCELLED"}

VetInputFields ==
    {"transcript", "notes", "patient_id", "consult_date",
     "veterinarian_id", "clinic_id", "template_id", "language"}

\* fields of VetInput without a default
RequiredFields == VetInputFields \ {"notes"}

\* the strings pydantic reads as a date, with the date each denotes: the
\* form YYYY-MM-DD, and a datetime whose time of day is zero
parse_date ==
    [s \in {"2025-01-01", "2025-01-01T00:00:00", "2025-01-02"} |->
        IF s = "2025-01-02" THEN PyDate("2025-01-02") ELSE PyDate("2025-01-01")]

\* VetInput(**input_data) validates
ValidInput(input_data) ==
    /\ RequiredFields \subseteq DOMAIN input_data
    /\ \A f \in DOMAIN input_data \cap RequiredFields : input_data[f].t = "str"
    /\ "consult_date" \in DOMAIN input_data =>
           input_data["consult_date"].s \in DOMAIN parse_date
    /\ "notes" \in DOMAIN input_data => input_data["notes"].t \in {"str", "none"}

\* VetInput(**input_data), for a valid input_data: consult_date is parsed
\* into a date, notes defaults to None
VetInput(input_data) ==
    [f \in VetInputFields |->
        IF f \notin DOMAIN input_data THEN PyNone
        ELSE IF f = "consult_date" THEN parse_date[input_data[f].s]
        ELSE input_data[f]]

\* what model_dump(mode="json") makes of a field: a date becomes its
\* isoformat() string
to_jsonable(v) == IF v.t = "date" THEN PyStr(v.iso) ELSE v

\* the field names in the order json.dumps(..., sort_keys=True) writes them
SortedFieldNames ==
    <<"clinic_id", "consult_date", "language", "notes",
      "patient_id", "template_id", "transcript", "veterinarian_id">>

\* hashlib.md5(s).hexdigest(), taken as collision-free
md5(s) == [md5 |-> s]

\* get_cache_key leaving the language out of the text it hashes
get_cache_key_NoLanguage(vet_input) ==
    md5([i \in {n \in 1..Len(SortedFieldNames) : SortedFieldNames[n] # "language"} |->
            <<SortedFieldNames[i],
              json_encode(to_jsonable(vet_input[SortedFieldNames[i]]))>>])

\* get_cache_key(vet_input)
get_cache_key(vet_input) ==
    md5([i \in 1..Len(SortedFieldNames) |->
            <<SortedFieldNames[i],
              json_encode(to_jsonable(vet_input[SortedFieldNames[i]]))>>])

(***************************************************************************)
(* Inputs and extraction outputs the model draws from.                     *)
(***************************************************************************)
\* a dict that validates as a VetInput; notes is left to its default
InputA ==
    [transcript |-> PyStr("Bella is limping"), patient_id |-> PyStr("PET1"),
     consult_date |-> PyStr("2025-01-01"), veterinarian_id |-> PyStr("V1"),
     clinic_id |-> PyStr("C1"), template_id |-> PyStr("SOAP_ER"),
     language |-> PyStr("en")]

\* no transcript: VetInput(**input_data) raises a ValidationError
InputMalformed ==
    [patient_id |-> PyStr("PET1"), consult_date |-> PyStr("2025-01-01"),
     veterinarian_id |-> PyStr("V1"), clinic_id |-> PyStr("C1"),
     template_id |-> PyStr("SOAP_ER"), language |-> PyStr("en")]

\* what a job may be submitted with
RawInputs == {InputA, InputMalformed}

CacheKeys == {get_cache_key(VetInput(i)) : i \in {x \in RawInputs : ValidInput(x)}}

OutputA ==
    PyModel("VetOutput",
        [follow_up_tasks |-> PyList(<<>>),
         medication_instructions |-> PyList(<<
             PyModel("MedicationInstruction",
                 [medication |-> PyStr("Rimadyl"), dosage |-> PyStr("2 mg/kg"),
                  frequency |-> PyStr("daily"), duration |-> PyNone,
                  route |-> PyEnum("str", PyStr("ORAL")),
                  conditions |-> PyNone])>>),
         client_reminders |-> PyList(<<>>),
         vet_todos |-> PyList(<<>>),
         soap_notes |-> PyList(<<>>),
         warnings |-> PyList(<<PyStr("check dosage")>>)])

OutputB ==
    PyModel("VetOutput",
        [follow_up_tasks |-> PyList(<<
             PyModel("FollowUpTask",
                 [description |-> PyStr("blood panel"), due_date |-> PyNone,
                  assigned_to |-> PyStr("Owner"),
                  status |-> PyEnum("str", PyStr("PENDING")),
                  context |-> PyNone])>>),
         medication_instructions |-> PyList(<<>>),
         client_reminders |-> PyList(<<
             PyModel("ClientReminder",
                 [description |-> PyStr("water intake"),
                  priority |-> PyEnum("str", PyStr("HIGH")),
                  category |-> PyEnum("str", PyStr("LIFESTYLE"))])>>),
         vet_todos |-> PyList(<<>>),
         soap_notes |-> PyList(<<>>),
         warnings |-> PyList(<<>>)])

\* what b.ExtractVetTasks may return
ExtractOutputs == {OutputA, OutputB}

(***************************************************************************)
(* State                                                                   *)
(***************************************************************************)
VARIABLES
    pc,                \* job id -> position of the job in process_vet_transcript
    input,             \* job id -> the dict the job was submitted with
    cached,            \* job id -> local `cached` of _process_vet_transcript
    result,            \* job id -> local `result`
    result_dict,       \* job id -> local `result_dict`
    sanitized_result,  \* job id -> local `sanitized_result`
    exc,               \* job id -> the exception `e` caught at line 139
    db,                \* task_id -> row of transcript_results, or PyNone
    redis,             \* cache key -> entry of the Redis cache, or PyNone
    celery,            \* job id -> state and result Celery holds for the job
    lookup,            \* job id -> outcome of the job's redis_client.get, as logged
    setex,             \* job id -> the job's redis_client.setex: its outcome and,
                       \*           for a call that succeeded, its arguments
    extract_calls,     \* job id -> number of calls of b.ExtractVetTasks started
    status_log,        \* task_id -> the statuses committed to the row, in order
    breaker,           \* global_breaker of resiliency.py: state, failure counter,
                       \*           and whether reset_timeout has passed since it opened
    call,              \* decorated endpoint -> the request it is serving
    obj,               \* an argument sanitize_payload is called with
    once,              \* sanitize_payload(obj), once computed
    twice,             \* sanitize_payload(sanitize_payload(obj)), once computed
    vetclient_once,    \* payload_sanitizer.sanitize_payload(obj), once computed:
                       \*           what it returned, or the exception it raised
    kwargs,            \* caller -> the keyword arguments it builds a VetInput from,
                       \*           in the order it supplies them
    keys,              \* caller -> what its calls of get_cache_key returned, in order
    clinics            \* the ids of the rows of the clinics table

\* the state the job reads and writes
job_vars == <<pc, input, cached, result, result_dict, sanitized_result, exc, db,
              redis, celery, lookup, setex, extract_calls, status_log>>

\* the state of the API process behind the resilient decorator
wrapper_vars == <<breaker, call>>

\* the argument and the results of the sanitizer on its own
sanitizer_vars == <<obj, once, twice, vetclient_once>>

\* the callers of get_cache_key, and the clinics table
fingerprint_vars == <<kwargs, keys>>

clinic_vars == <<clinics>>

vars == <<job_vars, wrapper_vars, sanitizer_vars, fingerprint_vars, clinic_vars>>

locals == <<cached, result, result_dict, sanitized_result>>

\* an exception instance of class cls, and str(e)
str_exc(e) == PyStr(e.cls)

\* the job's vet_input and cache_key (lines 75-76)
vet_input_of(j) == VetInput(input[j])
cache_key_of(j) == get_cache_key(vet_input_of(j))

\* seconds passed to redis_client.setex
CacheExpirySeconds == 86400

\* TranscriptResult(task_id=..., status=TaskStatus.PENDING, ...) of lines 89-100;
\* result, raw_result and error_message are nullable columns without default
TranscriptResult(task_id, vet_input) ==
    [task_id |-> task_id,
     transcript |-> vet_input["transcript"],
     notes |-> vet_input["notes"],
     status |-> "PENDING",
     patient_id |-> vet_input["patient_id"],
     consult_date |-> vet_input["consult_date"],
     veterinarian_id |-> vet_input["veterinarian_id"],
     clinic_id |-> vet_input["clinic_id"],
     template_id |-> vet_input["template_id"],
     language |-> vet_input["language"],
     result |-> PyNone,
     raw_result |-> PyNone,
     error_message |-> PyNone]

\* the job returns value v to Celery / raises e to Celery
Returns(j, v) ==
    /\ pc' = [pc EXCEPT ![j] = "returned"]
    /\ celery' = [celery EXCEPT ![j] = [state |-> "SUCCESS", result |-> v]]

Raises(j, e) ==
    /\ pc' = [pc EXCEPT ![j] = "raised"]
    /\ celery' = [celery EXCEPT ![j] = [state |-> "FAILURE", result |-> e]]

\* the except clause of line 139 catches e and runs fail_entry
Caught(j, e) ==
    /\ pc' = [pc EXCEPT ![j] = "fail_entry"]
    /\ exc' = [exc EXCEPT ![j] = e]

(***************************************************************************)
(* resiliency.py: the breaker and the decorated endpoints of api/task.py   *)
(***************************************************************************)
\* pybreaker.CircuitBreaker(fail_max=5, reset_timeout=60)
fail_max == 5

\* resilient(retry_attempts=3)
retry_attempts == 3

\* the breaker as constructed at import: closed, no failure counted
global_breaker == [state |-> "closed", fail_counter |-> 0, elapsed |-> FALSE]

\* the functions decorated with resilient: extract_tasks and get_task_status
\* as api/task.py decorates them, get_clinic as api/clinic.py does, a
\* function decorated with a fallback_handler and one decorated with
\* retry_exceptions as well (no endpoint of the repository passes either).
\* retry_exceptions holds the names of the classes retried; Exception, the
\* default, covers every exception raised here.
Decorated ==
    [extract_tasks |->
         [fallback_value |-> PyDict([task_id |-> PyNone]), fallback_handler |-> FALSE,
          retry_exceptions |-> {"Exception"}],
     get_task_status |->
         [fallback_value |-> PyNone, fallback_handler |-> FALSE,
          retry_exceptions |-> {"Exception"}],
     get_clinic |->
         [fallback_value |-> PyNone, fallback_handler |-> FALSE,
          retry_exceptions |-> {"Exception"}],
     with_handler |->
         [fallback_value |-> PyNone, fallback_handler |-> TRUE,
          retry_exceptions |-> {"Exception"}],
     selective |->
         [fallback_value |-> PyNone, fallback_handler |-> TRUE,
          retry_exceptions |-> {"TimeoutError"}]]

\* the decorated functions of the API process of SpecResilient
Sites == {"extract_tasks", "get_task_status", "with_handler"}

\* no request is being served
NoCall == [pc |-> "idle", arg |-> PyNone, entry |-> "none", attempt |-> 0,
           failures |-> <<>>, error |-> PyNone, ret |-> PyNone]

\* a value not yet computed
Unset == [t |-> "unset"]

\* the API process and the sanitizer harness at rest
InitWrapper ==
    /\ breaker = global_breaker
    /\ call = [s \in Sites |-> NoCall]

InitSanitizer ==
    /\ obj = PyNone
    /\ once = Unset
    /\ twice = Unset
    /\ vetclient_once = Unset

\* nobody is building a VetInput, and the clinics table is empty
InitFingerprint ==
    /\ kwargs = <<>>
    /\ keys = <<>>

InitClinics == clinics = {}

Init ==
    /\ InitWrapper
    /\ InitSanitizer
    /\ InitFingerprint
    /\ InitClinics
    /\ pc = [j \in Jobs |-> "idle"]
    /\ input = [j \in Jobs |-> PyNone]
    /\ cached = [j \in Jobs |-> PyNone]
    /\ result = [j \in Jobs |-> PyNone]
    /\ result_dict = [j \in Jobs |-> PyNone]
    /\ sanitized_result = [j \in Jobs |-> PyNone]
    /\ exc = [j \in Jobs |-> PyNone]
    /\ db = [j \in Jobs |-> PyNone]
    /\ redis = [k \in CacheKeys |-> PyNone]
    /\ celery = [j \in Jobs |-> [state |-> "PENDING", result |-> PyNone]]
    /\ lookup = [j \in Jobs |-> "none"]
    /\ setex = [j \in Jobs |-> [outcome |-> "none"]]
    /\ extract_calls = [j \in Jobs |-> 0]
    /\ status_log = [j \in Jobs |-> <<>>]

(***************************************************************************)
(* process_vet_transcript.delay(input): the scheduler assigns job id j     *)
(***************************************************************************)
Submit(j, input_data) ==
    /\ pc[j] = "idle"
    /\ input' = [input EXCEPT ![j] = input_data]
    /\ pc' = [pc EXCEPT ![j] = "queued"]
    /\ UNCHANGED <<locals, exc, db, redis, celery, lookup, setex, extract_calls, status_log>>
    /\ UNCHANGED <<wrapper_vars, sanitizer_vars, fingerprint_vars, clinic_vars>>

(***************************************************************************)
(* _process_vet_transcript, lines 74-131                                   *)
(***************************************************************************)
\* Start with the PENDING row written from the raw dict before it is parsed
Start_RowFirst(j) ==
    /\ pc[j] = "queued"
    /\ db' = [db EXCEPT ![j] = TranscriptResult(j, VetInput(input[j]))]
    /\ status_log' = [status_log EXCEPT ![j] = Append(@, "PENDING")]
    /\ IF ValidInput(input[j])
       THEN pc' = [pc EXCEPT ![j] = "extract"] /\ exc' = exc
       ELSE Caught(j, Exc("ValidationError"))
    /\ UNCHANGED <<input, locals, redis, celery, lookup, setex, extract_calls>>
    /\ UNCHANGED <<wrapper_vars, sanitizer_vars, fingerprint_vars, clinic_vars>>

\* lines 75-76: parse the input, derive the cache key
Start(j) ==
    /\ pc[j] = "queued"
    /\ IF ValidInput(input[j])
       THEN pc' = [pc EXCEPT ![j] = "cache_get"] /\ exc' = exc
       ELSE Caught(j, Exc("ValidationError"))
    /\ UNCHANGED <<input, locals, db, redis, celery, lookup, setex, extract_calls, status_log>>
    /\ UNCHANGED <<wrapper_vars, sanitizer_vars, fingerprint_vars, clinic_vars>>

\* CacheGetHit without the return of line 83: the hit is logged and the job
\* goes on as on a miss
CacheGetHit_NoReturn(j) ==
    /\ pc[j] = "cache_get"
    /\ redis[cache_key_of(j)] # PyNone
    /\ cached' = [cached EXCEPT ![j] = redis[cache_key_of(j)].value]
    /\ lookup' = [lookup EXCEPT ![j] = "hit"]
    /\ pc' = [pc EXCEPT ![j] = "create"]
    /\ UNCHANGED <<input, result, result_dict, sanitized_result, exc, db, redis,
                   celery, setex, extract_calls, status_log>>
    /\ UNCHANGED <<wrapper_vars, sanitizer_vars, fingerprint_vars, clinic_vars>>

\* lines 80-83: redis_client.get returns a value; the job returns json.loads of it
CacheGetHit(j) ==
    /\ pc[j] = "cache_get"
    /\ redis[cache_key_of(j)] # PyNone
    /\ cached' = [cached EXCEPT ![j] = redis[cache_key_of(j)].value]
    /\ lookup' = [lookup EXCEPT ![j] = "hit"]
    /\ Returns(j, json_loads(redis[cache_key_of(j)].value))
    /\ UNCHANGED <<input, result, result_dict, sanitized_result, exc, db, redis,
                   setex, extract_calls, status_log>>
    /\ UNCHANGED <<wrapper_vars, sanitizer_vars, fingerprint_vars, clinic_vars>>

\* lines 80-81: redis_client.get returns None
\* CacheGetMiss behind a lock on the cache key: the job waits while another
\* job with the same key is between its own miss and its exit
CacheGetMiss_Locked(j) ==
    /\ pc[j] = "cache_get"
    /\ redis[cache_key_of(j)] = PyNone
    /\ \A k \in DOMAIN pc \ {j} :
           pc[k] \in {"create", "extract", "extracting", "update", "cache_set",
                      "fail_entry"}
               => cache_key_of(k) # cache_key_of(j)
    /\ lookup' = [lookup EXCEPT ![j] = "miss"]
    /\ pc' = [pc EXCEPT ![j] = "create"]
    /\ UNCHANGED <<input, locals, exc, db, redis, celery, setex, extract_calls, status_log>>
    /\ UNCHANGED <<wrapper_vars, sanitizer_vars, fingerprint_vars, clinic_vars>>

CacheGetMiss(j) ==
    /\ pc[j] = "cache_get"
    /\ redis[cache_key_of(j)] = PyNone
    /\ lookup' = [lookup EXCEPT ![j] = "miss"]
    /\ pc' = [pc EXCEPT ![j] = "create"]
    /\ UNCHANGED <<input, locals, exc, db, redis, celery, setex, extract_calls, status_log>>
    /\ UNCHANGED <<wrapper_vars, sanitizer_vars, fingerprint_vars, clinic_vars>>

\* CacheGetError without the try of line 79: the Redis error leaves the coroutine
CacheGetError_Fatal(j) ==
    /\ pc[j] = "cache_get"
    /\ lookup' = [lookup EXCEPT ![j] = "error"]
    /\ Caught(j, Exc("RedisError"))
    /\ UNCHANGED <<input, locals, db, redis, celery, setex, extract_calls, status_log>>
    /\ UNCHANGED <<wrapper_vars, sanitizer_vars, fingerprint_vars, clinic_vars>>

\* lines 84-85: redis_client.get raises; logged, the job goes on
CacheGetError(j) ==
    /\ pc[j] = "cache_get"
    /\ lookup' = [lookup EXCEPT ![j] = "error"]
    /\ pc' = [pc EXCEPT ![j] = "create"]
    /\ UNCHANGED <<input, locals, exc, db, redis, celery, setex, extract_calls, status_log>>
    /\ UNCHANGED <<wrapper_vars, sanitizer_vars, fingerprint_vars, clinic_vars>>

\* CreatePending without the commit of line 102: no row is stored
CreatePending_NoCommit(j) ==
    /\ pc[j] = "create"
    /\ pc' = [pc EXCEPT ![j] = "extract"]
    /\ UNCHANGED <<input, locals, exc, db, redis, celery, lookup, setex,
                   extract_calls, status_log>>
    /\ UNCHANGED <<wrapper_vars, sanitizer_vars, fingerprint_vars, clinic_vars>>

\* lines 88-103: the PENDING row is added and committed
CreatePending(j) ==
    /\ pc[j] = "create"
    /\ db[j] = PyNone
    /\ db' = [db EXCEPT ![j] = TranscriptResult(j, vet_input_of(j))]
    /\ status_log' = [status_log EXCEPT ![j] = Append(@, "PENDING")]
    /\ pc' = [pc EXCEPT ![j] = "extract"]
    /\ UNCHANGED <<input, locals, exc, redis, celery, lookup, setex, extract_calls>>
    /\ UNCHANGED <<wrapper_vars, sanitizer_vars, fingerprint_vars, clinic_vars>>

\* CreatePendingDbError with the error logged instead of raised: the job goes
\* on to the extraction
CreatePendingDbError_Ignored(j) ==
    /\ pc[j] = "create"
    /\ exc' = [exc EXCEPT ![j] = Exc("DbError")]
    /\ pc' = [pc EXCEPT ![j] = "extract"]
    /\ UNCHANGED <<input, cached, result, result_dict, sanitized_result, db, redis,
                   celery, lookup, setex, extract_calls, status_log>>
    /\ UNCHANGED <<wrapper_vars, sanitizer_vars, fingerprint_vars, clinic_vars>>

\* lines 88-102: the session or its commit raises; nothing is committed
CreatePendingDbError(j) ==
    /\ pc[j] = "create"
    /\ Caught(j, Exc("DbError"))
    /\ UNCHANGED <<input, locals, db, redis, celery, lookup, setex, extract_calls, status_log>>
    /\ UNCHANGED <<wrapper_vars, sanitizer_vars, fingerprint_vars, clinic_vars>>

\* line 107: the call of b.ExtractVetTasks(vet_input) starts
ExtractCall(j) ==
    /\ pc[j] = "extract"
    /\ extract_calls' = [extract_calls EXCEPT ![j] = @ + 1]
    /\ pc' = [pc EXCEPT ![j] = "extracting"]
    /\ UNCHANGED <<input, locals, exc, db, redis, celery, lookup, setex, status_log>>
    /\ UNCHANGED <<wrapper_vars, sanitizer_vars, fingerprint_vars, clinic_vars>>

\* lines 107-109: the call returns r; it is dumped and sanitized
ExtractReturn(j, r) ==
    /\ pc[j] = "extracting"
    /\ result' = [result EXCEPT ![j] = r]
    /\ result_dict' = [result_dict EXCEPT ![j] = model_dump(r)]
    /\ sanitized_result' =
           [sanitized_result EXCEPT ![j] = sanitize_payload(model_dump(r))]
    /\ pc' = [pc EXCEPT ![j] = "update"]
    /\ UNCHANGED <<input, cached, exc, db, redis, celery, lookup, setex,
                   extract_calls, status_log>>
    /\ UNCHANGED <<wrapper_vars, sanitizer_vars, fingerprint_vars, clinic_vars>>

\* ExtractRaise with the failure swallowed at the call: the job goes on to
\* cache its (empty) result
ExtractRaise_Cached(j) ==
    /\ pc[j] = "extracting"
    /\ exc' = [exc EXCEPT ![j] = Exc("ExtractError")]
    /\ pc' = [pc EXCEPT ![j] = "cache_set"]
    /\ UNCHANGED <<input, locals, db, redis, celery, lookup, setex, extract_calls,
                   status_log>>
    /\ UNCHANGED <<wrapper_vars, sanitizer_vars, fingerprint_vars, clinic_vars>>

\* line 107: the call raises
ExtractRaise(j) ==
    /\ pc[j] = "extracting"
    /\ Caught(j, Exc("ExtractError"))
    /\ UNCHANGED <<input, locals, db, redis, celery, lookup, setex, extract_calls, status_log>>
    /\ UNCHANGED <<wrapper_vars, sanitizer_vars, fingerprint_vars, clinic_vars>>

\* UpdateCompleted with another member of TaskStatus at line 120
UpdateCompleted_Cancelled(j) ==
    /\ pc[j] = "update"
    /\ IF db[j] # PyNone
       THEN /\ db' = [db EXCEPT ![j] = [@ EXCEPT !.raw_result = result_dict[j],
                                                 !.result = sanitized_result[j],
                                                 !.status = "CANCELLED"]]
            /\ status_log' = [status_log EXCEPT ![j] = Append(@, "CANCELLED")]
       ELSE UNCHANGED <<db, status_log>>
    /\ pc' = [pc EXCEPT ![j] = "cache_set"]
    /\ UNCHANGED <<input, locals, exc, redis, celery, lookup, setex, extract_calls>>
    /\ UNCHANGED <<wrapper_vars, sanitizer_vars, fingerprint_vars, clinic_vars>>

\* UpdateCompleted leaving the commit of line 121 out: the row stays as it is
UpdateCompleted_NotCommitted(j) ==
    /\ pc[j] = "update"
    /\ pc' = [pc EXCEPT ![j] = "cache_set"]
    /\ UNCHANGED <<input, locals, exc, db, redis, celery, lookup, setex,
                   extract_calls, status_log>>
    /\ UNCHANGED <<wrapper_vars, sanitizer_vars, fingerprint_vars, clinic_vars>>

\* lines 112-122: the row of this task_id is selected and, when found,
\* set to COMPLETED with both payloads, in one commit
\* UpdateCompleted with the update reaching every PENDING row instead of
\* the row of the job's own id
UpdateCompleted_AllPending(j) ==
    /\ pc[j] = "update"
    /\ db' = [k \in DOMAIN db |->
                 IF db[k] # PyNone /\ db[k].status = "PENDING"
                 THEN [db[k] EXCEPT !.raw_result = result_dict[j],
                                    !.result = sanitized_result[j],
                                    !.status = "COMPLETED"]
                 ELSE db[k]]
    /\ status_log' = [k \in DOMAIN db |->
                         IF db[k] # PyNone /\ db[k].status = "PENDING"
                         THEN Append(status_log[k], "COMPLETED")
                         ELSE status_log[k]]
    /\ pc' = [pc EXCEPT ![j] = "cache_set"]
    /\ UNCHANGED <<input, locals, exc, redis, celery, lookup, setex, extract_calls>>
    /\ UNCHANGED <<wrapper_vars, sanitizer_vars, fingerprint_vars, clinic_vars>>

UpdateCompleted(j) ==
    /\ pc[j] = "update"
    /\ IF db[j] # PyNone
       THEN /\ db' = [db EXCEPT ![j] = [@ EXCEPT !.raw_result = result_dict[j],
                                                 !.result = sanitized_result[j],
                                                 !.status = "COMPLETED"]]
            /\ status_log' = [status_log EXCEPT ![j] = Append(@, "COMPLETED")]
       ELSE UNCHANGED <<db, status_log>>
    /\ pc' = [pc EXCEPT ![j] = "cache_set"]
    /\ UNCHANGED <<input, locals, exc, redis, celery, lookup, setex, extract_calls>>
    /\ UNCHANGED <<wrapper_vars, sanitizer_vars, fingerprint_vars, clinic_vars>>

\* lines 112-121: the select or the commit raises; the row is unchanged
UpdateCompletedDbError(j) ==
    /\ pc[j] = "update"
    /\ Caught(j, Exc("DbError"))
    /\ UNCHANGED <<input, locals, db, redis, celery, lookup, setex, extract_calls, status_log>>
    /\ UNCHANGED <<wrapper_vars, sanitizer_vars, fingerprint_vars, clinic_vars>>

\* CacheSet with the expiry of the Celery results (result_expires=3600)
CacheSet_HourExpiry(j) ==
    /\ pc[j] = "cache_set"
    /\ redis' = [redis EXCEPT ![cache_key_of(j)] =
                    [value |-> json_dumps(sanitized_result[j]), ex |-> 3600]]
    /\ setex' = [setex EXCEPT ![j] =
                    [outcome |-> "ok", name |-> cache_key_of(j), time |-> 3600,
                     value |-> json_dumps(sanitized_result[j])]]
    /\ Returns(j, sanitized_result[j])
    /\ UNCHANGED <<input, locals, exc, db, lookup, extract_calls, status_log>>
    /\ UNCHANGED <<wrapper_vars, sanitizer_vars, fingerprint_vars, clinic_vars>>

\* lines 126-131: the sanitized result is cached for 24 hours and returned
CacheSet(j) ==
    /\ pc[j] = "cache_set"
    /\ redis' = [redis EXCEPT ![cache_key_of(j)] =
                    [value |-> json_dumps(sanitized_result[j]),
                     ex |-> CacheExpirySeconds]]
    /\ setex' = [setex EXCEPT ![j] =
                    [outcome |-> "ok", name |-> cache_key_of(j),
                     time |-> CacheExpirySeconds,
                     value |-> json_dumps(sanitized_result[j])]]
    /\ Returns(j, sanitized_result[j])
    /\ UNCHANGED <<input, locals, exc, db, lookup, extract_calls, status_log>>
    /\ UNCHANGED <<wrapper_vars, sanitizer_vars, fingerprint_vars, clinic_vars>>

\* CacheSetError without the try of line 125: the Redis error leaves the coroutine
CacheSetError_Fatal(j) ==
    /\ pc[j] = "cache_set"
    /\ setex' = [setex EXCEPT ![j] = [outcome |-> "error"]]
    /\ Caught(j, Exc("RedisError"))
    /\ UNCHANGED <<input, locals, db, redis, celery, lookup, extract_calls,
                   status_log>>
    /\ UNCHANGED <<wrapper_vars, sanitizer_vars, fingerprint_vars, clinic_vars>>

\* lines 128-131: redis_client.setex raises; logged, the result is returned
CacheSetError(j) ==
    /\ pc[j] = "cache_set"
    /\ setex' = [setex EXCEPT ![j] = [outcome |-> "error"]]
    /\ Returns(j, sanitized_result[j])
    /\ UNCHANGED <<input, locals, exc, db, redis, lookup, extract_calls, status_log>>
    /\ UNCHANGED <<wrapper_vars, sanitizer_vars, fingerprint_vars, clinic_vars>>

(***************************************************************************)
(* process_vet_transcript, lines 139-156: the failure handler              *)
(***************************************************************************)
\* lines 144-156: fail_entry selects the row of this task_id.  Without a row
\* it does nothing and line 156 re-raises e.  With a row, line 152 evaluates
\* TaskStatus.FAILED: when the class has that member the row is set to FAILED
\* with str(e) and e is re-raised, otherwise the AttributeError of the lookup
\* leaves fail_entry and the except clause.
FailEntry(j) ==
    /\ pc[j] = "fail_entry"
    /\ IF db[j] = PyNone
       THEN /\ UNCHANGED <<db, status_log>>
            /\ Raises(j, exc[j])
       ELSE IF "FAILED" \in TaskStatus
       THEN /\ db' = [db EXCEPT ![j] = [@ EXCEPT !.status = "FAILED",
                                                 !.error_message = str_exc(exc[j])]]
            /\ status_log' = [status_log EXCEPT ![j] = Append(@, "FAILED")]
            /\ Raises(j, exc[j])
       ELSE /\ UNCHANGED <<db, status_log>>
            /\ Raises(j, Exc("AttributeError"))
    /\ UNCHANGED <<input, locals, exc, redis, lookup, setex, extract_calls>>
    /\ UNCHANGED <<wrapper_vars, sanitizer_vars, fingerprint_vars, clinic_vars>>

\* lines 145-155: the select or the commit of fail_entry raises; the row is
\* unchanged and that error leaves the except clause
FailEntryDbError(j) ==
    /\ pc[j] = "fail_entry"
    /\ Raises(j, Exc("DbError"))
    /\ UNCHANGED <<input, locals, exc, db, redis, lookup, setex, extract_calls, status_log>>
    /\ UNCHANGED <<wrapper_vars, sanitizer_vars, fingerprint_vars, clinic_vars>>

(***************************************************************************)
(* Redis drops an entry when its expiry has elapsed                        *)
(***************************************************************************)
Expire(k) ==
    /\ redis[k] # PyNone
    /\ redis' = [redis EXCEPT ![k] = PyNone]
    /\ UNCHANGED <<pc, input, locals, exc, db, celery, lookup, setex, extract_calls, status_log>>
    /\ UNCHANGED <<wrapper_vars, sanitizer_vars, fingerprint_vars, clinic_vars>>

\* line 46, result_expires=3600: an hour after the job ended the result
\* backend drops what it stored for it; AsyncResult(task_id).state is then
\* PENDING, as for an id it has never seen.  The job itself is over.
ResultExpires(j) ==
    /\ pc[j] \in {"returned", "raised"}
    /\ celery[j].state \in {"SUCCESS", "FAILURE"}
    /\ celery' = [celery EXCEPT ![j] = [state |-> "PENDING", result |-> PyNone]]
    /\ UNCHANGED <<pc, input, locals, exc, db, redis, lookup, setex, extract_calls,
                   status_log>>
    /\ UNCHANGED <<wrapper_vars, sanitizer_vars, fingerprint_vars, clinic_vars>>

Next ==
    \/ \E j \in Jobs, input_data \in RawInputs : Submit(j, input_data)
    \/ \E j \in Jobs : Start(j)
    \/ \E j \in Jobs : CacheGetHit(j)
    \/ \E j \in Jobs : CacheGetMiss(j)
    \/ \E j \in Jobs : CacheGetError(j)
    \/ \E j \in Jobs : CreatePending(j)
    \/ \E j \in Jobs : CreatePendingDbError(j)
    \/ \E j \in Jobs : ExtractCall(j)
    \/ \E j \in Jobs, r \in ExtractOutputs : ExtractReturn(j, r)
    \/ \E j \in Jobs : ExtractRaise(j)
    \/ \E j \in Jobs : UpdateCompleted(j)
    \/ \E j \in Jobs : UpdateCompletedDbError(j)
    \/ \E j \in Jobs : CacheSet(j)
    \/ \E j \in Jobs : CacheSetError(j)
    \/ \E j \in Jobs : FailEntry(j)
    \/ \E j \in Jobs : FailEntryDbError(j)
    \/ \E k \in CacheKeys : Expire(k)

Spec == Init /\ [][Next]_vars

(***************************************************************************)
(* utils/resiliency.py: resilient = async_fallback(async_circuit_breaker(  *)
(* async_retry(func))), on the breaker shared by all decorated functions.  *)
(* Each decorated function serves one request at a time here; call[s]      *)
(* keeps the outcome of the last request until the next one arrives:       *)
(* the state the breaker was in when the request arrived (entry), the      *)
(* number of calls of func made (attempt), the exception the fallback      *)
(* caught (error) and what the caller got (ret).                           *)
(* pybreaker is taken as documented: CLOSED counts consecutive failures    *)
(* and opens at fail_max, OPEN rejects until reset_timeout has passed and  *)
(* then lets a trial call through in HALF-OPEN.  The handlers that run     *)
(* when a call ends are those of the state the call entered in.            *)
(***************************************************************************)
\* handler(e, *args, **kwargs) of a call site that passes fallback_handler
Handled(e) == [t |-> "handled", e |-> e]

\* lines 65-69: what async_fallback returns for exception e
async_fallback(s, e) ==
    IF Decorated[s].fallback_handler THEN Handled(e) ELSE Decorated[s].fallback_value

\* what a request to a decorated function may carry: any VetInput that passed
\* FastAPI's validation, any job id
Arguments(s) ==
    IF s = "extract_tasks" THEN {x \in RawInputs : ValidInput(x)}
    ELSE IF s = "get_task_status" THEN {PyInt(j) : j \in DOMAIN pc}
    ELSE {PyNone}

\* CircuitBreakerState.on_success of the state the call entered in: CLOSED
\* resets the counter, HALF-OPEN closes the breaker (which resets it too)
on_success(entry) ==
    IF entry = "half-open"
    THEN [state |-> "closed", fail_counter |-> 0, elapsed |-> FALSE]
    ELSE [breaker EXCEPT !.fail_counter = 0]

\* the counter after one more failure; the code only ever compares it with
\* fail_max, so it is kept up to fail_max
inc_counter == IF breaker.fail_counter < fail_max THEN breaker.fail_counter + 1
               ELSE fail_max

\* trips with the breaker opening one failure early
trips_Early(entry) == entry = "half-open" \/ inc_counter >= fail_max - 1

\* the failure trips the breaker: a failed trial call, or the fail_max-th
\* failure in a row of a call that entered CLOSED
trips(entry) == entry = "half-open" \/ inc_counter >= fail_max

\* CircuitBreakerState._handle_error and on_failure
on_failure(entry) ==
    IF trips(entry)
    THEN [state |-> "open", fail_counter |-> inc_counter, elapsed |-> FALSE]
    ELSE [breaker EXCEPT !.fail_counter = inc_counter]

\* Admit without the check of the cooldown: an OPEN breaker lets every
\* request through as a trial call
Admit_Ungated(s, arg) ==
    /\ call[s].pc \in {"idle", "done"}
    /\ call' = [call EXCEPT ![s] =
                   [pc |-> "attempt", arg |-> arg, attempt |-> 0,
                    failures |-> <<>>, error |-> PyNone, ret |-> PyNone,
                    entry |-> IF breaker.state = "closed" THEN "closed"
                              ELSE "half-open"]]
    /\ breaker' = IF breaker.state = "open"
                  THEN [breaker EXCEPT !.state = "half-open"] ELSE breaker
    /\ UNCHANGED <<job_vars, sanitizer_vars, fingerprint_vars, clinic_vars>>

\* lines 45-47 and 62-64: a request arrives and breaker.call_async lets it
\* through: the breaker is CLOSED or HALF-OPEN, or it is OPEN with the
\* cooldown over and this call becomes the trial call
Admit(s, arg) ==
    /\ call[s].pc \in {"idle", "done"}
    /\ breaker.state = "open" => breaker.elapsed
    /\ call' = [call EXCEPT ![s] =
                   [pc |-> "attempt", arg |-> arg, attempt |-> 0,
                    failures |-> <<>>, error |-> PyNone, ret |-> PyNone,
                    entry |-> IF breaker.state = "closed" THEN "closed"
                              ELSE "half-open"]]
    /\ breaker' = IF breaker.state = "open"
                  THEN [breaker EXCEPT !.state = "half-open"] ELSE breaker
    /\ UNCHANGED <<job_vars, sanitizer_vars, fingerprint_vars, clinic_vars>>

\* Reject with the CircuitBreakerError re-raised past the fallback
Reject_Propagates(s, arg) ==
    /\ call[s].pc \in {"idle", "done"}
    /\ breaker.state = "open" /\ ~breaker.elapsed
    /\ call' = [call EXCEPT ![s] =
                   [pc |-> "done", arg |-> arg, attempt |-> 0, entry |-> "open",
                    failures |-> <<>>, error |-> Exc("CircuitBreakerError"),
                    ret |-> Exc("CircuitBreakerError")]]
    /\ UNCHANGED <<breaker, job_vars, sanitizer_vars, fingerprint_vars, clinic_vars>>

\* Reject with the request let through to func all the same
Reject_Invokes(s, arg) ==
    /\ call[s].pc \in {"idle", "done"}
    /\ breaker.state = "open" /\ ~breaker.elapsed
    /\ call' = [call EXCEPT ![s] =
                   [pc |-> "attempt", arg |-> arg, attempt |-> 0, entry |-> "open",
                    failures |-> <<>>, error |-> PyNone, ret |-> PyNone]]
    /\ UNCHANGED <<breaker, job_vars, sanitizer_vars, fingerprint_vars, clinic_vars>>

\* lines 47-51 and 65-69: a request arrives while the breaker is OPEN and the
\* cooldown is not over: CircuitBreakerError without a call of func, which
\* the fallback turns into its value
Reject(s, arg) ==
    /\ call[s].pc \in {"idle", "done"}
    /\ breaker.state = "open" /\ ~breaker.elapsed
    /\ call' = [call EXCEPT ![s] =
                   [pc |-> "done", arg |-> arg, attempt |-> 0, entry |-> "open",
                    failures |-> <<>>, error |-> Exc("CircuitBreakerError"),
                    ret |-> async_fallback(s, Exc("CircuitBreakerError"))]]
    /\ UNCHANGED <<breaker, job_vars, sanitizer_vars, fingerprint_vars, clinic_vars>>

\* lines 31-34, 47, 64: an attempt of func returned v; the retry loop, the
\* breaker and the fallback pass it on
Returned(s, v) ==
    /\ call[s].pc = "attempt"
    /\ call' = [call EXCEPT ![s].pc = "done", ![s].attempt = @ + 1, ![s].ret = v]
    /\ breaker' = on_success(call[s].entry)

\* retry_if_exception_type(exceptions): e is of a class the site retries
retried(s, e) ==
    \/ "Exception" \in Decorated[s].retry_exceptions
    \/ e.cls \in Decorated[s].retry_exceptions

\* Raised with the last failure re-raised past the fallback
Raised_Propagates(s, e) ==
    /\ call[s].pc = "attempt"
    /\ IF retried(s, e) /\ call[s].attempt + 1 < retry_attempts
       THEN /\ call' = [call EXCEPT ![s].attempt = @ + 1,
                                    ![s].failures = Append(@, e)]
            /\ breaker' = breaker
       ELSE /\ call' = [call EXCEPT ![s].pc = "done", ![s].attempt = @ + 1,
                                    ![s].failures = Append(@, e),
                                    ![s].error = e, ![s].ret = e]
            /\ breaker' = on_failure(call[s].entry)

\* Raised with the failure of the first attempt re-raised after the last
Raised_FirstFailure(s, e) ==
    /\ call[s].pc = "attempt"
    /\ IF retried(s, e) /\ call[s].attempt + 1 < retry_attempts
       THEN /\ call' = [call EXCEPT ![s].attempt = @ + 1,
                                    ![s].failures = Append(@, e)]
            /\ breaker' = breaker
       ELSE LET raised == IF trips(call[s].entry)
                          THEN Exc("CircuitBreakerError")
                          ELSE Append(call[s].failures, e)[1]
            IN  /\ call' = [call EXCEPT
                               ![s].pc = "done", ![s].attempt = @ + 1,
                               ![s].failures = Append(@, e),
                               ![s].error = raised,
                               ![s].ret = async_fallback(s, raised)]
                /\ breaker' = on_failure(call[s].entry)

\* Raised with the breaker inside the retry loop: every failed attempt is
\* recorded as a failure
Raised_CountsEach(s, e) ==
    /\ call[s].pc = "attempt"
    /\ IF retried(s, e) /\ call[s].attempt + 1 < retry_attempts
       THEN /\ call' = [call EXCEPT ![s].attempt = @ + 1,
                                    ![s].failures = Append(@, e)]
            /\ breaker' = on_failure(call[s].entry)
       ELSE LET raised == IF trips(call[s].entry)
                          THEN Exc("CircuitBreakerError") ELSE e
            IN  /\ call' = [call EXCEPT
                               ![s].pc = "done", ![s].attempt = @ + 1,
                               ![s].failures = Append(@, e),
                               ![s].error = raised,
                               ![s].ret = async_fallback(s, raised)]
                /\ breaker' = on_failure(call[s].entry)

\* Raised with every exception retried, whatever retry_exceptions says
Raised_RetriesAll(s, e) ==
    /\ call[s].pc = "attempt"
    /\ IF call[s].attempt + 1 < retry_attempts
       THEN /\ call' = [call EXCEPT ![s].attempt = @ + 1,
                                    ![s].failures = Append(@, e)]
            /\ breaker' = breaker
       ELSE LET raised == IF trips(call[s].entry)
                          THEN Exc("CircuitBreakerError") ELSE e
            IN  /\ call' = [call EXCEPT
                               ![s].pc = "done", ![s].attempt = @ + 1,
                               ![s].failures = Append(@, e),
                               ![s].error = raised,
                               ![s].ret = async_fallback(s, raised)]
                /\ breaker' = on_failure(call[s].entry)

\* lines 24-34: an attempt of func raised e.  When e is of a retried class
\* and attempts are left, the retry loop waits and goes round again.
\* Otherwise e is re-raised (reraise=True), the breaker counts one failure
\* and raises CircuitBreakerError itself when that failure trips it, and
\* the fallback turns the exception into its value (lines 65-69).
Raised(s, e) ==
    /\ call[s].pc = "attempt"
    /\ IF retried(s, e) /\ call[s].attempt + 1 < retry_attempts
       THEN /\ call' = [call EXCEPT ![s].attempt = @ + 1,
                                    ![s].failures = Append(@, e)]
            /\ breaker' = breaker
       ELSE LET raised == IF trips(call[s].entry)
                          THEN Exc("CircuitBreakerError") ELSE e
            IN  /\ call' = [call EXCEPT
                               ![s].pc = "done", ![s].attempt = @ + 1,
                               ![s].failures = Append(@, e),
                               ![s].error = raised,
                               ![s].ret = async_fallback(s, raised)]
                /\ breaker' = on_failure(call[s].entry)

\* CooldownElapses with the breaker closing by itself when the time is up
CooldownElapses_Closes ==
    /\ breaker.state = "open" /\ ~breaker.elapsed
    /\ breaker' = [state |-> "closed", fail_counter |-> 0, elapsed |-> FALSE]
    /\ UNCHANGED <<call, job_vars, sanitizer_vars, fingerprint_vars, clinic_vars>>

\* reset_timeout seconds have passed since the breaker opened
CooldownElapses ==
    /\ breaker.state = "open" /\ ~breaker.elapsed
    /\ breaker' = [breaker EXCEPT !.elapsed = TRUE]
    /\ UNCHANGED <<call, job_vars, sanitizer_vars, fingerprint_vars, clinic_vars>>

(***************************************************************************)
(* api/task.py: the bodies of the two endpoints                            *)
(***************************************************************************)
\* TaskIdResponse(task_id=task.id)
TaskIdResponse(task_id) == PyModel("TaskIdResponse", [task_id |-> PyInt(task_id)])

\* the members of database.TaskStatus, the class api/task.py imports, with
\* status_enum.value.lower() of each
lower ==
    [PENDING |-> "pending", COMPLETED |-> "completed", FAILED |-> "failed"]

\* get_task_status asking Celery first and reading the row only for a job
\* Celery still reports PENDING
get_task_status_SchedulerFirst(task_id) ==
    LET task == celery[task_id] IN
    IF task.state = "SUCCESS"
    THEN PyDict([status |-> PyStr("completed"), result |-> json_encode(task.result)])
    ELSE IF task.state = "FAILURE"
    THEN PyDict([status |-> PyStr("failed"), error |-> str_exc(task.result)])
    ELSE IF db[task_id] = PyNone
    THEN PyDict([status |-> PyStr("processing")])
    ELSE LET transcript == db[task_id] IN
         IF transcript.status \notin DOMAIN lower
         THEN Exc("HTTPException")
         ELSE IF transcript.status = "COMPLETED"
         THEN PyDict([status |-> PyStr(lower[transcript.status]),
                      result |-> json_encode(transcript.result)])
         ELSE IF transcript.status = "FAILED"
         THEN PyDict([status |-> PyStr(lower[transcript.status]),
                      error |-> transcript.error_message])
         ELSE PyDict([status |-> PyStr(lower[transcript.status])])

\* get_task_status answering from the row alone: a job without a row is
\* reported as being processed, whatever Celery holds for it
get_task_status_RowOnly(task_id) ==
    IF db[task_id] # PyNone
    THEN LET transcript == db[task_id] IN
         IF transcript.status \notin DOMAIN lower
         THEN Exc("HTTPException")
         ELSE IF transcript.status = "COMPLETED"
         THEN PyDict([status |-> PyStr(lower[transcript.status]),
                      result |-> json_encode(transcript.result)])
         ELSE IF transcript.status = "FAILED"
         THEN PyDict([status |-> PyStr(lower[transcript.status]),
                      error |-> transcript.error_message])
         ELSE PyDict([status |-> PyStr(lower[transcript.status])])
    ELSE PyDict([status |-> PyStr("processing")])

\* lines 76-103: the response get_task_status builds from the row of task_id
\* or, without a row, from the state Celery holds for task_id; result columns
\* and Celery results come back as the JSON they were stored as.  A status
\* that is no member of database.TaskStatus raises at line 84.
get_task_status(task_id) ==
    IF db[task_id] # PyNone
    THEN LET transcript == db[task_id] IN
         IF transcript.status \notin DOMAIN lower
         THEN Exc("HTTPException")
         ELSE IF transcript.status = "COMPLETED"
         THEN PyDict([status |-> PyStr(lower[transcript.status]),
                      result |-> json_encode(transcript.result)])
         ELSE IF transcript.status = "FAILED"
         THEN PyDict([status |-> PyStr(lower[transcript.status]),
                      error |-> transcript.error_message])
         ELSE PyDict([status |-> PyStr(lower[transcript.status])])
    ELSE LET task == celery[task_id] IN
         IF task.state = "PENDING"
         THEN PyDict([status |-> PyStr("processing")])
         ELSE IF task.state = "SUCCESS"
         THEN PyDict([status |-> PyStr("completed"),
                      result |-> json_encode(task.result)])
         ELSE IF task.state = "FAILURE"
         THEN PyDict([status |-> PyStr("failed"), error |-> str_exc(task.result)])
         ELSE PyDict([status |-> PyStr(task.state)])

\* lines 75-103: an attempt of get_task_status returns its response
GetTaskStatusReturn ==
    /\ call["get_task_status"].pc = "attempt"
    /\ get_task_status(call["get_task_status"].arg.n) # Exc("HTTPException")
    /\ Returned("get_task_status", get_task_status(call["get_task_status"].arg.n))
    /\ UNCHANGED <<job_vars, sanitizer_vars, fingerprint_vars, clinic_vars>>

\* lines 105-108: the database or the result backend raised, or line 84 did;
\* the attempt raises HTTPException(500)
GetTaskStatusRaise ==
    /\ Raised("get_task_status", Exc("HTTPException"))
    /\ UNCHANGED <<job_vars, sanitizer_vars, fingerprint_vars, clinic_vars>>

\* lines 50-55: an attempt of extract_tasks enqueues the job, which gets the
\* next job id, and returns that id
ExtractTasksReturn(j) ==
    /\ pc[j] = "idle"
    /\ \A k \in DOMAIN pc : k < j => pc[k] # "idle"
    /\ Returned("extract_tasks", TaskIdResponse(j))
    /\ input' = [input EXCEPT ![j] = call["extract_tasks"].arg]
    /\ pc' = [pc EXCEPT ![j] = "queued"]
    /\ UNCHANGED <<locals, exc, db, redis, celery, lookup, setex, extract_calls,
                   status_log, sanitizer_vars, fingerprint_vars, clinic_vars>>

\* lines 56-59: the broker raised on delay(); the attempt raises HTTPException(500)
ExtractTasksRaise ==
    /\ Raised("extract_tasks", Exc("HTTPException"))
    /\ UNCHANGED <<job_vars, sanitizer_vars, fingerprint_vars, clinic_vars>>

\* a function decorated with a fallback_handler returns, or raises
WithHandlerReturn ==
    /\ Returned("with_handler", PyStr("ok"))
    /\ UNCHANGED <<job_vars, sanitizer_vars, fingerprint_vars, clinic_vars>>

WithHandlerRaise ==
    /\ Raised("with_handler", Exc("ValueError"))
    /\ UNCHANGED <<job_vars, sanitizer_vars, fingerprint_vars, clinic_vars>>

\* the API process alone: requests to the three decorated functions, no
\* worker running the jobs that extract_tasks enqueues
InitResilient == Init

NextResilient ==
    \/ \E s \in Sites : \E arg \in Arguments(s) : Admit(s, arg)
    \/ \E s \in Sites : \E arg \in Arguments(s) : Reject(s, arg)
    \/ GetTaskStatusReturn
    \/ GetTaskStatusRaise
    \/ \E j \in DOMAIN pc : ExtractTasksReturn(j)
    \/ ExtractTasksRaise
    \/ WithHandlerReturn
    \/ WithHandlerRaise
    \/ CooldownElapses

SpecResilient == InitResilient /\ [][NextResilient]_vars

(***************************************************************************)
(* An outage of the extraction service: fail_max + 1 jobs are submitted    *)
(* with the same valid input (numbered in the order of their submission),  *)
(* cache and database are healthy, and every call of b.ExtractVetTasks     *)
(* raises.                                                                 *)
(***************************************************************************)
OutageJobs == 1..(fail_max + 1)

\* the state of Init for the job ids of J
InitJobs(J) ==
    /\ pc = [j \in J |-> "idle"]
    /\ input = [j \in J |-> PyNone]
    /\ cached = [j \in J |-> PyNone]
    /\ result = [j \in J |-> PyNone]
    /\ result_dict = [j \in J |-> PyNone]
    /\ sanitized_result = [j \in J |-> PyNone]
    /\ exc = [j \in J |-> PyNone]
    /\ db = [j \in J |-> PyNone]
    /\ celery = [j \in J |-> [state |-> "PENDING", result |-> PyNone]]
    /\ lookup = [j \in J |-> "none"]
    /\ setex = [j \in J |-> [outcome |-> "none"]]
    /\ extract_calls = [j \in J |-> 0]
    /\ status_log = [j \in J |-> <<>>]

InitOutage ==
    /\ InitWrapper
    /\ InitSanitizer
    /\ InitFingerprint
    /\ InitClinics
    /\ InitJobs(OutageJobs)
    /\ redis = [k \in CacheKeys |-> PyNone]

NextOutage ==
    \/ \E j \in OutageJobs :
           (\A k \in 1..(j - 1) : pc[k] # "idle") /\ Submit(j, InputA)
    \/ \E j \in OutageJobs : Start(j)
    \/ \E j \in OutageJobs : CacheGetMiss(j)
    \/ \E j \in OutageJobs : CreatePending(j)
    \/ \E j \in OutageJobs : ExtractCall(j)
    \/ \E j \in OutageJobs : ExtractRaise(j)
    \/ \E j \in OutageJobs : FailEntry(j)

SpecOutage == InitOutage /\ [][NextOutage]_vars

(***************************************************************************)
(* Properties of the job                                                   *)
(***************************************************************************)
Exited(j) == pc[j] \in {"returned", "raised"}

\* job j2 wrote value under the cache key of job j
WroteCache(j2, j, value) ==
    /\ setex[j2].outcome = "ok"
    /\ setex[j2].name = cache_key_of(j)
    /\ setex[j2].value = value

\* C1: a job whose cache lookup finds a value under the fingerprint of its
\* input returns exactly that value (a value some other job cached under that
\* fingerprint), never calls the extraction service and neither creates nor
\* updates a row.
C1_CacheShortCircuit ==
    \A j \in Jobs :
        lookup[j] = "hit" =>
            /\ pc[j] = "returned"
            /\ celery[j] = [state |-> "SUCCESS", result |-> json_loads(cached[j])]
            /\ \E j2 \in Jobs \ {j} : WroteCache(j2, j, cached[j])
            /\ extract_calls[j] = 0
            /\ db[j] = PyNone
            /\ status_log[j] = <<>>

C1_Witness ==
    \E j \in Jobs : lookup[j] = "hit" /\ pc[j] = "returned"

\* C2: whenever a job has started an extraction call, a row with its job id
\* was committed with status PENDING before, and the row is PENDING for as
\* long as the call is in flight.
C2_PendingBeforeExtraction ==
    \A j \in Jobs :
        /\ extract_calls[j] > 0 =>
               /\ db[j] # PyNone
               /\ db[j].task_id = j
               /\ Len(status_log[j]) >= 1
               /\ status_log[j][1] = "PENDING"
        /\ pc[j] = "extracting" => db[j].status = "PENDING"

C2_Witness ==
    \E j \in Jobs : pc[j] = "extracting" /\ extract_calls[j] = 1

\* C3: whenever a job that created a row has returned or raised, that row is
\* COMPLETED or FAILED.
C3_TerminalOnExit ==
    \A j \in Jobs :
        Exited(j) /\ db[j] # PyNone => db[j].status \in {"COMPLETED", "FAILED"}

\* C4: a job that raises after its PENDING row was created has set the row to
\* FAILED with error_message = str(e) and raises the original error e.
C4_FailedThenReraise ==
    \A j \in Jobs :
        pc[j] = "raised" /\ db[j] # PyNone =>
            /\ db[j].status = "FAILED"
            /\ db[j].error_message = str_exc(exc[j])
            /\ celery[j] = [state |-> "FAILURE", result |-> exc[j]]

\* C5: after a job has returned or raised, its row (when there is one) is
\* either COMPLETED with result and raw_result set and error_message null, or
\* FAILED with error_message set and result and raw_result null.
C5_Exclusivity ==
    \A j \in Jobs :
        Exited(j) /\ db[j] # PyNone =>
            \/ /\ db[j].status = "COMPLETED"
               /\ db[j].result # PyNone
               /\ db[j].raw_result # PyNone
               /\ db[j].error_message = PyNone
            \/ /\ db[j].status = "FAILED"
               /\ db[j].error_message # PyNone
               /\ db[j].result = PyNone
               /\ db[j].raw_result = PyNone

\* C6: the status of a row changes at most once after its creation as
\* PENDING, to COMPLETED or to FAILED, and never again after that.
C6_SingleTransition ==
    \A j \in Jobs :
        /\ status_log[j] \in {<<>>, <<"PENDING">>, <<"PENDING", "COMPLETED">>,
                              <<"PENDING", "FAILED">>}
        /\ db[j] = PyNone <=> status_log[j] = <<>>
        /\ db[j] # PyNone => db[j].status = status_log[j][Len(status_log[j])]

\* a job whose row was completed has returned while another job, whose row
\* exists, went through the failure handler
C6_Witness ==
    \E j1, j2 \in Jobs :
        /\ pc[j1] = "returned" /\ status_log[j1] = <<"PENDING", "COMPLETED">>
        /\ pc[j2] = "raised" /\ status_log[j2] = <<"PENDING">>

\* what redis_client.setex(cache_key, 86400, json.dumps(sanitize(r))) stores
CachedEntry(r) ==
    [value |-> json_dumps(sanitize_payload(r)), ex |-> CacheExpirySeconds]

\* the row and the return value of a job that missed the cache, got r from
\* the extraction call and returned
CompletedWith(j, r) ==
    /\ db[j] # PyNone
    /\ db[j].status = "COMPLETED"
    /\ db[j].raw_result = model_dump(r)
    /\ db[j].result = sanitize_payload(r)
    /\ celery[j] = [state |-> "SUCCESS", result |-> sanitize_payload(r)]

\* C7, as claimed: when a job whose lookup missed and whose extraction call
\* returned r has returned, its row is COMPLETED with raw_result = r and
\* result = sanitize(r), the cache holds sanitize(r) under the fingerprint of
\* its input with a 24-hour expiry, and it returned sanitize(r).
C7_EndToEndSuccess ==
    \A j \in Jobs :
        pc[j] = "returned" /\ lookup[j] = "miss" =>
            /\ CompletedWith(j, result[j])
            /\ redis[cache_key_of(j)] = CachedEntry(result[j])

\* C7, amended: such a job's row is COMPLETED with raw_result = r and
\* result = sanitize(r) and it returned sanitize(r); and at the moment it
\* returns, unless its cache write failed, the cache holds sanitize(r) under
\* the fingerprint of its input with a 24-hour expiry.
C7_EndToEndSuccessUnlessCacheWriteFails ==
    /\ [](\A j \in Jobs :
            pc[j] = "returned" /\ lookup[j] = "miss" => CompletedWith(j, result[j]))
    /\ [][\A j \in Jobs :
            pc[j] = "cache_set" /\ pc'[j] = "returned" /\ lookup[j] = "miss" =>
                \/ setex'[j].outcome = "error"
                \/ redis'[cache_key_of(j)] = CachedEntry(result[j])]_vars

C7_Witness ==
    \E j \in Jobs :
        /\ pc[j] = "returned" /\ lookup[j] = "miss"
        /\ setex[j].outcome = "ok"
        /\ redis[cache_key_of(j)] = CachedEntry(result[j])

\* C8: a job whose cache read failed is on the path of a cache miss: it
\* creates the PENDING row and calls the extraction service, and the only
\* errors it can end with are those of the row creation, the extraction call
\* and the row update, never the cache error.
C8_CacheReadFailureIsMiss ==
    \A j \in Jobs :
        lookup[j] = "error" =>
            /\ cached[j] = PyNone
            /\ pc[j] \in {"create", "extract", "extracting", "update",
                         "cache_set", "fail_entry", "returned", "raised"}
            /\ pc[j] \in {"extract", "extracting", "update", "cache_set", "returned"}
                   => db[j] # PyNone /\ exc[j] = PyNone
            /\ pc[j] \in {"extracting", "update", "cache_set", "returned"}
                   => extract_calls[j] = 1
            /\ pc[j] \in {"fail_entry", "raised"}
                   => \/ exc[j] = Exc("DbError")
                      \/ exc[j] = Exc("ExtractError") /\ extract_calls[j] = 1
            /\ celery[j].result # Exc("RedisError")

C8_Witness ==
    \E j \in Jobs :
        /\ lookup[j] = "error" /\ pc[j] = "returned"
        /\ redis[cache_key_of(j)] # PyNone
        /\ extract_calls[j] = 1
        /\ db[j] # PyNone

\* C9: a job whose cache write failed has returned the sanitized payload, its
\* row is COMPLETED, and no error reached the scheduler.
C9_CacheWriteFailureNotFatal ==
    \A j \in Jobs :
        setex[j].outcome = "error" =>
            /\ pc[j] = "returned"
            /\ exc[j] = PyNone
            /\ celery[j] = [state |-> "SUCCESS", result |-> sanitized_result[j]]
            /\ sanitized_result[j] = sanitize_payload(result[j])
            /\ db[j] # PyNone
            /\ db[j].status = "COMPLETED"

C9_Witness ==
    \E j \in Jobs : setex[j].outcome = "error" /\ pc[j] = "returned"

\* C10: a job whose extraction call raised writes no cache entry; an entry
\* under the fingerprint of its input was written by another job.
C10_NoCacheWriteOnFailure ==
    \A j \in Jobs :
        exc[j] = Exc("ExtractError") =>
            /\ setex[j].outcome = "none"
            /\ redis[cache_key_of(j)] # PyNone =>
                   \E j2 \in Jobs \ {j} :
                       WroteCache(j2, j, redis[cache_key_of(j)].value)

C10_Witness ==
    \E j \in Jobs : pc[j] = "raised" /\ exc[j] = Exc("ExtractError")

\* C11: a job whose input does not parse into a VetInput goes straight to the
\* failure handler and raises: it makes no cache read and no cache write, no
\* extraction call, and no row of its job id is created or changed.
C11_MalformedInputNoSideEffects ==
    \A j \in Jobs :
        pc[j] \notin {"idle", "queued"} /\ ~ValidInput(input[j]) =>
            /\ pc[j] \in {"fail_entry", "raised"}
            /\ exc[j] = Exc("ValidationError")
            /\ pc[j] = "raised" =>
                   /\ celery[j].state = "FAILURE"
                   /\ celery[j].result \in {Exc("ValidationError"), Exc("DbError")}
            /\ lookup[j] = "none"
            /\ setex[j].outcome = "none"
            /\ extract_calls[j] = 0
            /\ db[j] = PyNone
            /\ status_log[j] = <<>>

C11_Witness ==
    \E j \in Jobs :
        /\ input[j] = InputMalformed
        /\ pc[j] = "raised"
        /\ celery[j].result = Exc("ValidationError")

\* C12: a job whose extraction call raised gets to its failure handler only
\* after it has made retry_attempts calls of the extraction service, or with
\* the breaker open.
C12_ExtractionRetried ==
    \A j \in DOMAIN pc :
        pc[j] \in {"fail_entry", "raised"} /\ exc[j] = Exc("ExtractError") =>
            \/ extract_calls[j] = retry_attempts
            \/ breaker.state = "open"

\* the jobs whose extraction call has raised
ExtractionFailed == {j \in DOMAIN pc : exc[j] = Exc("ExtractError")}

\* C13: once fail_max extraction calls in a row have failed, and until the
\* cooldown of the breaker has elapsed, no job starts a call of the
\* extraction service.
C13_BreakerTripStopsJobs ==
    [][\A j \in DOMAIN pc :
          /\ Cardinality(ExtractionFailed) >= fail_max
          /\ ~breaker.elapsed
          /\ pc[j] = "extract"
          => pc'[j] # "extracting"]_vars

\* C14: a finished call of a decorated function has given its caller a value,
\* never an exception: the value an attempt returned or, when the call failed
\* (its last attempt raised, that failure tripped the breaker, or the breaker
\* rejected it), the handler's result for that exception where a handler is
\* configured and the configured fallback value otherwise.
C14_FallbackNeverPropagates ==
    \A s \in Sites :
        call[s].pc = "done" =>
            /\ call[s].ret.t # "exc"
            /\ call[s].error = PyNone => call[s].attempt \in 1..retry_attempts
            /\ call[s].error # PyNone =>
                   /\ call[s].attempt \in {0, retry_attempts}
                   /\ call[s].attempt = 0 <=> call[s].entry = "open"
                   /\ call[s].ret =
                          IF s = "with_handler" THEN Handled(call[s].error)
                          ELSE IF s = "extract_tasks" THEN PyDict([task_id |-> PyNone])
                          ELSE PyNone

\* a rejected call, a call whose attempts were exhausted and a call whose
\* last failure tripped the breaker have each ended in the fallback
C14_Witness ==
    /\ call["get_task_status"].pc = "done"
    /\ call["get_task_status"].error = Exc("CircuitBreakerError")
    /\ call["get_task_status"].attempt = 0
    /\ call["get_task_status"].ret = PyNone
    /\ call["with_handler"].pc = "done"
    /\ call["with_handler"].ret = Handled(Exc("ValueError"))
    /\ call["extract_tasks"].pc = "done"
    /\ call["extract_tasks"].error = Exc("CircuitBreakerError")
    /\ call["extract_tasks"].attempt = retry_attempts

\* C15: while the breaker is OPEN and its cooldown is not over, a request
\* arriving at any decorated function ends at once with the fallback and
\* without a call of the function, whichever function's failures opened the
\* breaker; and a request rejected so never makes an attempt afterwards.
C15_SharedBreaker ==
    /\ [][\A s \in Sites :
             /\ breaker.state = "open" /\ ~breaker.elapsed
             /\ call[s].pc \in {"idle", "done"}
             /\ call'[s] # call[s]
             => /\ call'[s].pc = "done"
                /\ call'[s].attempt = 0
                /\ call'[s].error = Exc("CircuitBreakerError")
                /\ \/ call'[s].ret = Decorated[s].fallback_value
                   \/ call'[s].ret = Handled(Exc("CircuitBreakerError"))
                /\ UNCHANGED <<breaker, job_vars>>]_vars
    /\ [](\A s \in Sites : call[s].entry = "open" => call[s].attempt = 0)

\* the failures of extract_tasks alone opened the breaker, and the first
\* requests ever made to the two other functions were rejected
C15_Witness ==
    /\ breaker.state = "open" /\ ~breaker.elapsed
    /\ call["extract_tasks"].error = Exc("CircuitBreakerError")
    /\ call["extract_tasks"].entry = "closed"
    /\ \A s \in Sites \ {"extract_tasks"} :
           /\ call[s].pc = "done"
           /\ call[s].entry = "open"
           /\ call[s].attempt = 0

(***************************************************************************)
(* The status endpoint beside a running job: one job is submitted and run  *)
(* by the worker while clients ask get_task_status for its id.  The cache  *)
(* is empty or holds the entry an earlier job left for the same input.     *)
(***************************************************************************)
ApiJobs == {1}

InitApi ==
    /\ InitWrapper
    /\ InitSanitizer
    /\ InitFingerprint
    /\ InitClinics
    /\ InitJobs(ApiJobs)
    /\ redis \in [CacheKeys -> {PyNone} \cup {CachedEntry(r) : r \in ExtractOutputs}]

NextApi ==
    \/ \E j \in ApiJobs, input_data \in RawInputs : Submit(j, input_data)
    \/ \E j \in ApiJobs : Start(j)
    \/ \E j \in ApiJobs : CacheGetHit(j)
    \/ \E j \in ApiJobs : CacheGetMiss(j)
    \/ \E j \in ApiJobs : CacheGetError(j)
    \/ \E j \in ApiJobs : CreatePending(j)
    \/ \E j \in ApiJobs : CreatePendingDbError(j)
    \/ \E j \in ApiJobs : ExtractCall(j)
    \/ \E j \in ApiJobs, r \in ExtractOutputs : ExtractReturn(j, r)
    \/ \E j \in ApiJobs : ExtractRaise(j)
    \/ \E j \in ApiJobs : UpdateCompleted(j)
    \/ \E j \in ApiJobs : UpdateCompletedDbError(j)
    \/ \E j \in ApiJobs : CacheSet(j)
    \/ \E j \in ApiJobs : CacheSetError(j)
    \/ \E j \in ApiJobs : FailEntry(j)
    \/ \E j \in ApiJobs : FailEntryDbError(j)
    \/ \E j \in ApiJobs : ResultExpires(j)
    \/ \E arg \in Arguments("get_task_status") : Admit("get_task_status", arg)
    \/ \E arg \in Arguments("get_task_status") : Reject("get_task_status", arg)
    \/ GetTaskStatusReturn
    \/ GetTaskStatusRaise
    \/ CooldownElapses

SpecApi == InitApi /\ [][NextApi]_vars

\* the request get_task_status is serving, or served last
status_call == call["get_task_status"]

\* C16: whenever get_task_status has answered a request, the answer is not
\* an exception; and when the lookup itself went through, whatever the row
\* and Celery hold for the job id, the answer is a response whose status is
\* processing, completed or failed, a completed one carrying the result and
\* a failed one the error message.
C16_StatusQueryContract ==
    status_call.pc = "done" =>
        /\ status_call.ret.t # "exc"
        /\ status_call.error = PyNone =>
               /\ status_call.ret.t = "dict"
               /\ \/ status_call.ret.kv.status = PyStr("processing")
                  \/ /\ status_call.ret.kv.status = PyStr("completed")
                     /\ "result" \in DOMAIN status_call.ret.kv
                  \/ /\ status_call.ret.kv.status = PyStr("failed")
                     /\ "error" \in DOMAIN status_call.ret.kv

\* the answer the row alone determines
RowAnswer(transcript) ==
    [status |-> PyStr(lower[transcript.status])]
        @@ (IF transcript.status = "COMPLETED"
            THEN [result |-> json_encode(transcript.result)] ELSE <<>>)
        @@ (IF transcript.status = "FAILED"
            THEN [error |-> transcript.error_message] ELSE <<>>)

\* the answer Celery's state alone determines
SchedulerAnswer(task) ==
    CASE task.state = "PENDING" -> [status |-> PyStr("processing")]
      [] task.state = "SUCCESS" -> [status |-> PyStr("completed"),
                                    result |-> json_encode(task.result)]
      [] task.state = "FAILURE" -> [status |-> PyStr("failed"),
                                    error |-> str_exc(task.result)]

\* C17: an attempt of get_task_status that returns, returns the answer of
\* the row of the job id when there is such a row, whatever Celery holds for
\* the job (the result exactly for a COMPLETED row, the error message exactly
\* for a FAILED one), and the answer of Celery's state only when there is no
\* row.
C17_RecordFirst ==
    [][status_call.pc = "attempt" /\ status_call'.pc = "done"
           /\ status_call'.error = PyNone
       => LET task_id == status_call.arg.n IN
          /\ status_call'.ret.t = "dict"
          /\ db[task_id] # PyNone =>
                 /\ status_call'.ret.kv = RowAnswer(db[task_id])
                 /\ "result" \in DOMAIN status_call'.ret.kv
                        <=> db[task_id].status = "COMPLETED"
                 /\ "error" \in DOMAIN status_call'.ret.kv
                        <=> db[task_id].status = "FAILED"
          /\ db[task_id] = PyNone =>
                 status_call'.ret.kv = SchedulerAnswer(celery[task_id])]_vars

\* the job has committed COMPLETED and not yet returned: Celery still says
\* PENDING, and the query has answered completed with the row's result
C17_Witness ==
    /\ status_call.pc = "done" /\ status_call.error = PyNone
    /\ db[1] # PyNone /\ db[1].status = "COMPLETED"
    /\ celery[1].state = "PENDING"
    /\ status_call.ret = PyDict([status |-> PyStr("completed"),
                                result |-> json_encode(db[1].result)])

(***************************************************************************)
(* sanitize_payload on its own: called with an argument obj, and called    *)
(* again with what it returned.  The arguments are the values of nesting   *)
(* depth up to MaxDepth built from a string, an integer, None, members of  *)
(* a (str, Enum) class with a value in capitals and one in small letters,  *)
(* a member of a plain Enum class with an integer value, one-element       *)
(* lists, the dicts {"value": v}, {"value": v, "checks": []} and           *)
(* {"nested": v}, and a pydantic model with one field.  The revision of    *)
(* VetClient/payload_sanitizer.py is called with the same argument.        *)
(***************************************************************************)
MaxDepth == 3

Atoms ==
    {PyStr("ORAL"), PyInt(1), PyNone,
     PyEnum("str", PyStr("HIGH")), PyEnum("none", PyInt(2)),
     PyEnum("str", PyStr("oral"))}

RECURSIVE PayloadsOfDepth(_)
PayloadsOfDepth(d) ==
    IF d = 0 THEN Atoms
    ELSE LET P == PayloadsOfDepth(d - 1) IN
         Atoms
         \cup {PyList(<<v>>) : v \in P}
         \cup {PyDict([value |-> v]) : v \in P}
         \cup {PyDict([value |-> v, checks |-> PyList(<<>>)]) : v \in P}
         \cup {PyDict([nested |-> v]) : v \in P}
         \cup {PyModel("Checked", [value |-> v]) : v \in P}

Payloads == PayloadsOfDepth(MaxDepth)

InitSanitize ==
    /\ InitWrapper
    /\ InitFingerprint
    /\ InitClinics
    /\ InitJobs(ApiJobs)
    /\ redis = [k \in CacheKeys |-> PyNone]
    /\ obj \in Payloads
    /\ once = Unset
    /\ twice = Unset
    /\ vetclient_once = Unset

\* once = sanitize_payload(obj)
Sanitize ==
    /\ once = Unset
    /\ once' = sanitize_payload(obj)
    /\ UNCHANGED <<obj, twice, vetclient_once, job_vars, wrapper_vars, fingerprint_vars,
                   clinic_vars>>

\* twice = sanitize_payload(once)
SanitizeAgain ==
    /\ once # Unset
    /\ twice = Unset
    /\ twice' = sanitize_payload(once)
    /\ UNCHANGED <<obj, once, vetclient_once, job_vars, wrapper_vars, fingerprint_vars,
                   clinic_vars>>

\* vetclient_once = what sanitize_payload of payload_sanitizer.py makes of obj
SanitizeVetClient ==
    /\ vetclient_once = Unset
    /\ vetclient_once' = VetClient_sanitize_payload(obj)
    /\ UNCHANGED <<obj, once, twice, job_vars, wrapper_vars, fingerprint_vars,
                   clinic_vars>>

NextSanitize ==
    \/ Sanitize
    \/ SanitizeAgain
    \/ SanitizeVetClient

SpecSanitize == InitSanitize /\ [][NextSanitize]_vars

\* x is built from mappings, sequences and primitives only
RECURSIVE Plain(_)
Plain(x) ==
    CASE x.t = "dict" -> \A k \in DOMAIN x.kv : Plain(x.kv[k])
      [] x.t = "list" -> \A i \in 1..Len(x.items) : Plain(x.items[i])
      [] OTHER -> x.t \in {"str", "int", "float", "bool", "none"}

\* x is a mapping with an entry "value" that is a string, integer or float
IsWrapper(x) ==
    /\ x.t = "dict"
    /\ "value" \in DOMAIN x.kv
    /\ x.kv["value"].t \in {"str", "int", "float"}

\* some mapping in x has an entry "value" that is itself a wrapper
RECURSIVE HasWrappedWrapper(_)
HasWrappedWrapper(x) ==
    CASE x.t = "dict" ->
             \/ "value" \in DOMAIN x.kv /\ IsWrapper(x.kv["value"])
             \/ \E k \in DOMAIN x.kv : HasWrappedWrapper(x.kv[k])
      [] x.t = "list" -> \E i \in 1..Len(x.items) : HasWrappedWrapper(x.items[i])
      [] OTHER -> FALSE

RECURSIVE OnlyJson(_)
OnlyJson(x) ==
    CASE x.t = "dict" -> \A k \in DOMAIN x.kv : OnlyJson(x.kv[k])
      [] x.t = "list" -> \A i \in 1..Len(x.items) : OnlyJson(x.items[i])
      [] OTHER -> x.t \in {"str", "int", "float", "bool", "none"}

\* C20: what sanitize_payload returns holds only mappings, sequences and
\* primitives at every depth: no enum member and no model.
C20_OnlyPlainValues ==
    once # Unset => OnlyJson(once)

(***************************************************************************)
(* get_cache_key on its own: each of two callers builds a VetInput from    *)
(* keyword arguments it supplies in an order of its own, and calls         *)
(* get_cache_key on it up to MaxCalls times.                               *)
(***************************************************************************)
MaxCalls == 2

Callers == {1, 2}

\* the fields of VetInput in the order schemas.py declares them
DeclaredFieldNames ==
    <<"transcript", "notes", "patient_id", "consult_date",
      "veterinarian_id", "clinic_id", "template_id", "language">>

\* names moved n places round, and names back to front
Rotate(names, n) ==
    [i \in 1..Len(names) |-> names[((i + n - 1) % Len(names)) + 1]]

Reverse(names) == [i \in 1..Len(names) |-> names[Len(names) + 1 - i]]

Orders ==
    {Rotate(DeclaredFieldNames, n) : n \in 0..(Len(DeclaredFieldNames) - 1)}
        \cup {Reverse(DeclaredFieldNames)}

\* valid inputs: notes left out, None and a string; for every other field
\* an input that differs from InputA in that field alone; and the date of
\* InputA written as a datetime
FingerprintInputs ==
    {InputA,
     InputA @@ [notes |-> PyNone],
     InputA @@ [notes |-> PyStr("recheck in 7 days")],
     [InputA EXCEPT !.transcript = PyStr("Max is coughing")],
     [InputA EXCEPT !.patient_id = PyStr("PET2")],
     [InputA EXCEPT !.consult_date = PyStr("2025-01-02")],
     [InputA EXCEPT !.consult_date = PyStr("2025-01-01T00:00:00")],
     [InputA EXCEPT !.veterinarian_id = PyStr("V2")],
     [InputA EXCEPT !.clinic_id = PyStr("C2")],
     [InputA EXCEPT !.template_id = PyStr("DISCHARGE")],
     [InputA EXCEPT !.language = PyStr("EN")]}

\* the entries of input_data as keyword arguments in the order names gives
Ordered(input_data, names) ==
    LET present == SelectSeq(names, LAMBDA f : f \in DOMAIN input_data)
    IN  [i \in 1..Len(present) |-> <<present[i], input_data[present[i]]>>]

\* the dict a sequence of keyword arguments is received as
dict(pairs) ==
    [f \in {pairs[i][1] : i \in DOMAIN pairs} |->
        pairs[CHOOSE i \in DOMAIN pairs : pairs[i][1] = f][2]]

InitFingerprints ==
    /\ InitWrapper
    /\ InitSanitizer
    /\ InitClinics
    /\ InitJobs(ApiJobs)
    /\ redis = [k \in CacheKeys |-> PyNone]
    /\ kwargs \in [Callers -> {Ordered(i, o) : i \in FingerprintInputs, o \in Orders}]
    /\ keys = [c \in Callers |-> <<>>]

\* GetCacheKey hashing json.dumps of the keyword arguments as supplied
GetCacheKey_AsSupplied(c) ==
    /\ Len(keys[c]) < MaxCalls
    /\ keys' = [keys EXCEPT ![c] =
                   Append(@, md5([i \in DOMAIN kwargs[c] |->
                                     <<kwargs[c][i][1], json_encode(kwargs[c][i][2])>>]))]
    /\ UNCHANGED <<kwargs, job_vars, wrapper_vars, sanitizer_vars, clinic_vars>>

\* lines 75-76: get_cache_key(VetInput(**input_data))
GetCacheKey(c) ==
    /\ Len(keys[c]) < MaxCalls
    /\ keys' = [keys EXCEPT ![c] =
                   Append(@, get_cache_key(VetInput(dict(kwargs[c]))))]
    /\ UNCHANGED <<kwargs, job_vars, wrapper_vars, sanitizer_vars, clinic_vars>>

NextFingerprints == \E c \in Callers : GetCacheKey(c)

SpecFingerprints == InitFingerprints /\ [][NextFingerprints]_vars

HTTPException(status_code, detail) ==
    [t |-> "exc", cls |-> "HTTPException", status_code |-> status_code,
     detail |-> detail]

\* the ids a clinic may be stored under, and the ids requests ask for
ClinicIds == {"C1", "C2"}

RequestedIds == {"C1", " C1 ", "<C2>", "C9"}

\* resiliency.sanitize_input: value.strip().replace('<', '').replace('>', '')
sanitize_input(value) ==
    CASE value = " C1 " -> "C1"
      [] value = "<C2>" -> "C2"
      [] OTHER -> value

\* lines 101-103 caught at line 106: the 404 raised for a missing row leaves
\* the try block as a 500 carrying the text of the 404
NotFoundAs500 == HTTPException(500, "Failed to retrieve clinic: 404: Clinic not found")

\* line 106: the query itself failed
QueryFailedAs500 == HTTPException(500, "Failed to retrieve clinic: connection refused")

InitClinic ==
    /\ InitSanitizer
    /\ InitFingerprint
    /\ InitJobs(ApiJobs)
    /\ redis = [k \in CacheKeys |-> PyNone]
    /\ breaker = global_breaker
    /\ call = [s \in {"get_clinic"} |-> NoCall]
    /\ clinics \in SUBSET ClinicIds

\* lines 97-105: the row is there and is returned
GetClinicReturn ==
    /\ call["get_clinic"].pc = "attempt"
    /\ sanitize_input(call["get_clinic"].arg.s) \in clinics
    /\ Returned("get_clinic",
                PyModel("Clinic", [id |-> PyStr(sanitize_input(call["get_clinic"].arg.s))]))
    /\ UNCHANGED <<job_vars, sanitizer_vars, fingerprint_vars, clinic_vars>>

\* lines 100-109: no row; HTTPException(404) is raised inside the try block
\* and the except clause of line 106 replaces it
GetClinicNotFound ==
    /\ call["get_clinic"].pc = "attempt"
    /\ sanitize_input(call["get_clinic"].arg.s) \notin clinics
    /\ Raised("get_clinic", NotFoundAs500)
    /\ UNCHANGED <<job_vars, sanitizer_vars, fingerprint_vars, clinic_vars>>

\* lines 98, 106-109: db.execute raised
GetClinicQueryFails ==
    /\ Raised("get_clinic", QueryFailedAs500)
    /\ UNCHANGED <<job_vars, sanitizer_vars, fingerprint_vars, clinic_vars>>

NextClinic ==
    \/ \E id \in RequestedIds : Admit("get_clinic", PyStr(id))
    \/ \E id \in RequestedIds : Reject("get_clinic", PyStr(id))
    \/ GetClinicReturn
    \/ GetClinicNotFound
    \/ GetClinicQueryFails
    \/ CooldownElapses

SpecClinic == InitClinic /\ [][NextClinic]_vars

\* C22: a request for a clinic id that is not stored, whose every attempt
\* found the table without that row, has ended for the caller in the 404
\* "Clinic not found".
C22_NotFoundIs404 ==
    LET c == call["get_clinic"] IN
    /\ c.pc = "done"
    /\ sanitize_input(c.arg.s) \notin clinics
    /\ c.failures # <<>>
    /\ \A i \in DOMAIN c.failures : c.failures[i] = NotFoundAs500
    => c.ret = HTTPException(404, "Clinic not found")

RejectionFallback(s) ==
    IF Decorated[s].fallback_handler
    THEN Handled(Exc("CircuitBreakerError"))
    ELSE Decorated[s].fallback_value

\* C24: a request that arrives while the breaker is OPEN and the cooldown is
\* not over is rejected, and a rejected request has made no attempt, neither
\* a first one nor a retry: it is over, no failure of func is on its record,
\* no job has been enqueued for it, and its caller has the fallback of the
\* breaker's rejection.
C24_OpenInvokesNothing ==
    /\ [][\A s \in DOMAIN call :
             /\ breaker.state = "open" /\ ~breaker.elapsed
             /\ call[s].pc \in {"idle", "done"}
             /\ call'[s] # call[s]
             => call'[s].entry = "open" /\ pc' = pc /\ input' = input]_vars
    /\ [](\A s \in DOMAIN call :
             call[s].entry = "open" =>
                 /\ call[s].pc = "done"
                 /\ call[s].attempt = 0
                 /\ call[s].failures = <<>>
                 /\ call[s].error = Exc("CircuitBreakerError")
                 /\ call[s].ret = RejectionFallback(s))

\* extract_tasks has been rejected: its caller has {"task_id": None} and no
\* job was enqueued
C24_Witness ==
    /\ breaker.state = "open" /\ ~breaker.elapsed
    /\ call["extract_tasks"].entry = "open"
    /\ call["extract_tasks"].ret = PyDict([task_id |-> PyNone])
    /\ \A j \in DOMAIN pc : pc[j] = "idle"

\* site s ends a trial call in this step
TrialEnds(s) ==
    /\ call[s].entry = "half-open"
    /\ call[s].pc = "attempt" /\ call'[s].pc = "done"

\* C25: a request that arrives at an OPEN breaker whose cooldown is over is
\* admitted as a trial and the breaker is HALF-OPEN; a trial that succeeds
\* leaves the breaker CLOSED with the count at zero; a trial that fails
\* leaves it OPEN with a new cooldown to run; and the breaker leaves OPEN
\* for CLOSED only in a step in which a trial succeeds.
C25_HalfOpenTrial ==
    /\ [][\A s \in DOMAIN call :
             /\ breaker.state = "open" /\ breaker.elapsed
             /\ call[s].pc \in {"idle", "done"}
             /\ call'[s] # call[s]
             => /\ call'[s].pc = "attempt"
                /\ call'[s].entry = "half-open"
                /\ breaker'.state = "half-open"]_vars
    /\ [][\A s \in DOMAIN call :
             TrialEnds(s) =>
                 IF call'[s].error = PyNone
                 THEN breaker'.state = "closed" /\ breaker'.fail_counter = 0
                 ELSE breaker'.state = "open" /\ ~breaker'.elapsed]_vars
    /\ [][breaker.state = "open" /\ breaker'.state = "closed"
             => \E s \in DOMAIN call : TrialEnds(s) /\ call'[s].error = PyNone]_vars

\* a trial of extract_tasks failed and opened the breaker again; after the
\* new cooldown a trial of get_task_status succeeded and closed it
C25_Witness ==
    /\ breaker.state = "closed" /\ breaker.fail_counter = 0
    /\ call["extract_tasks"].pc = "done"
    /\ call["extract_tasks"].entry = "half-open"
    /\ call["extract_tasks"].error = Exc("CircuitBreakerError")
    /\ call["get_task_status"].pc = "done"
    /\ call["get_task_status"].entry = "half-open"
    /\ call["get_task_status"].error = PyNone

(***************************************************************************)
(* async_retry seen through two decorated functions whose attempts fail    *)
(* with exceptions of two classes: with_handler retries every exception,   *)
(* selective only TimeoutError.  Both pass a fallback_handler, so that the *)
(* caller sees which exception came out.  The k-th call of the wrapped     *)
(* function within one request returns k when it returns.                  *)
(***************************************************************************)
RetrySites == {"with_handler", "selective"}

Failures == {Exc("TimeoutError"), Exc("ValueError")}

InitRetry ==
    /\ InitSanitizer
    /\ InitFingerprint
    /\ InitClinics
    /\ InitJobs(ApiJobs)
    /\ redis = [k \in CacheKeys |-> PyNone]
    /\ breaker = global_breaker
    /\ call = [s \in RetrySites |-> NoCall]

\* line 34: func returns
WorkReturns(s) ==
    /\ Returned(s, PyInt(call[s].attempt + 1))
    /\ UNCHANGED <<job_vars, sanitizer_vars, fingerprint_vars, clinic_vars>>

\* line 34: func raises e
WorkRaises(s, e) ==
    /\ Raised(s, e)
    /\ UNCHANGED <<job_vars, sanitizer_vars, fingerprint_vars, clinic_vars>>

NextRetry ==
    \/ \E s \in RetrySites : Admit(s, PyNone)
    \/ \E s \in RetrySites : Reject(s, PyNone)
    \/ \E s \in RetrySites : WorkReturns(s)
    \/ \E s \in RetrySites, e \in Failures : WorkRaises(s, e)
    \/ CooldownElapses

SpecRetry == InitRetry /\ [][NextRetry]_vars

\* every failure on the record of site s is of a class the site retries
AllRetried(s) ==
    \A i \in DOMAIN call[s].failures :
        \/ "Exception" \in Decorated[s].retry_exceptions
        \/ call[s].failures[i].cls \in Decorated[s].retry_exceptions

\* C26: a request the breaker let through calls the wrapped function at most
\* retry_attempts times.  It ends at the first call that returns, with that
\* call's value; and when its calls fail with retried exceptions it ends
\* after retry_attempts of them with the exception of the last (which the
\* breaker replaces by its own when that failure opens it).
C26_RetryBounded ==
    \A s \in DOMAIN call :
        /\ call[s].attempt <= retry_attempts
        /\ call[s].pc = "attempt" =>
               /\ call[s].attempt < retry_attempts
               /\ Len(call[s].failures) = call[s].attempt
        /\ call[s].pc = "done" /\ call[s].error = PyNone =>
               /\ Len(call[s].failures) = call[s].attempt - 1
               /\ call[s].ret = PyInt(call[s].attempt)
        /\ call[s].pc = "done" /\ call[s].error # PyNone /\ call[s].entry # "open"
               /\ AllRetried(s) =>
               /\ call[s].attempt = retry_attempts
               /\ Len(call[s].failures) = retry_attempts
               /\ call[s].error \in {call[s].failures[retry_attempts],
                                      Exc("CircuitBreakerError")}
               /\ call[s].ret = Handled(call[s].error)

\* one request ended at its second call with the value 2; the other failed
\* with ValueError, ValueError, TimeoutError and its caller got the last
C26_Witness ==
    /\ call["selective"].pc = "done"
    /\ call["selective"].failures = <<Exc("TimeoutError")>>
    /\ call["selective"].ret = PyInt(2)
    /\ call["with_handler"].pc = "done"
    /\ call["with_handler"].failures =
           <<Exc("ValueError"), Exc("ValueError"), Exc("TimeoutError")>>
    /\ call["with_handler"].ret = Handled(Exc("TimeoutError"))

\* C27: a failure of a class that is not retried ends the request at once:
\* no call of the wrapped function follows it, so a request whose first call
\* fails so has made exactly one call, and that exception is what leaves
\* the retry loop.
C27_RetryOnlyConfigured ==
    \A s \in DOMAIN call :
        \A i \in DOMAIN call[s].failures :
            /\ "Exception" \notin Decorated[s].retry_exceptions
            /\ call[s].failures[i].cls \notin Decorated[s].retry_exceptions
            =>
                /\ i = Len(call[s].failures)
                /\ call[s].pc = "done"
                /\ call[s].attempt = i
                /\ call[s].error \in {call[s].failures[i], Exc("CircuitBreakerError")}
                /\ call[s].ret = Handled(call[s].error)

\* the first call of selective failed with ValueError and the caller has it
\* after that one call
C27_Witness ==
    /\ call["selective"].pc = "done"
    /\ call["selective"].attempt = 1
    /\ call["selective"].failures = <<Exc("ValueError")>>
    /\ call["selective"].ret = Handled(Exc("ValueError"))

\* site s makes a call of the wrapped function in this step, and it fails
AttemptFails(s) ==
    /\ call[s].pc = "attempt"
    /\ Len(call'[s].failures) = Len(call[s].failures) + 1

\* C28 as stated: every failed attempt is recorded by the breaker as one
\* failure, and while the breaker is OPEN (its cooldown not over) no request
\* makes a further attempt.
C28_EachAttemptGated ==
    /\ [][\A s \in DOMAIN call :
             AttemptFails(s) /\ breaker.fail_counter < fail_max
             => breaker'.fail_counter = breaker.fail_counter + 1]_vars
    /\ [][\A s \in DOMAIN call :
             breaker.state = "open" /\ ~breaker.elapsed
             => call'[s].attempt <= call[s].attempt]_vars

\* C28 amended: the breaker is consulted once for a request, when it
\* arrives, and records one outcome for it, when it ends.  A failed attempt
\* that is followed by a retry leaves the breaker as it is, whatever its
\* state; the failed attempt that ends the request is recorded as one
\* failure.
C28_OneFailurePerCall ==
    [][\A s \in DOMAIN call :
          AttemptFails(s) =>
              IF call'[s].pc = "attempt"
              THEN breaker' = breaker
              ELSE /\ call'[s].pc = "done"
                   /\ breaker'.fail_counter =
                          IF breaker.fail_counter < fail_max
                          THEN breaker.fail_counter + 1 ELSE fail_max]_vars

\* the breaker is OPEN with its cooldown running, opened by the failures of
\* selective, while a request to with_handler that was admitted before is
\* in its retry loop with two failed attempts behind it
C28_Witness ==
    /\ breaker.state = "open" /\ ~breaker.elapsed
    /\ call["selective"].error = Exc("CircuitBreakerError")
    /\ call["selective"].entry = "closed"
    /\ call["with_handler"].pc = "attempt"
    /\ call["with_handler"].entry = "closed"
    /\ Len(call["with_handler"].failures) = 2

\* C29: nothing another job does holds a job back on its way to the
\* extraction call: a job at the cache lookup can take the miss whenever the
\* cache has no entry for its key, a job that has missed can create its row,
\* and a job with its row can call b.ExtractVetTasks, whatever the other
\* jobs are doing and whatever their inputs.
C29_NoFingerprintLock ==
    \A j \in DOMAIN pc :
        /\ pc[j] = "cache_get" /\ redis[cache_key_of(j)] = PyNone
               => ENABLED CacheGetMiss(j)
        /\ pc[j] = "create" /\ db[j] = PyNone => ENABLED CreatePending(j)
        /\ pc[j] = "extract" => ENABLED ExtractCall(j)

\* two jobs with the same cache key have both missed the cache and are both
\* inside their call of b.ExtractVetTasks
C29_Witness ==
    \E j1 \in DOMAIN pc, j2 \in DOMAIN pc :
        /\ j1 # j2
        /\ pc[j1] = "extracting" /\ pc[j2] = "extracting"
        /\ cache_key_of(j1) = cache_key_of(j2)
        /\ lookup[j1] = "miss" /\ lookup[j2] = "miss"
        /\ extract_calls[j1] = 1 /\ extract_calls[j2] = 1
        /\ redis[cache_key_of(j1)] = PyNone

\* C30: the row of a job id changes only in a step of the job with that id,
\* at its insert, its COMPLETED update or its FAILED update; in that step no
\* other row changes and no other job moves.  Every row carries the id it
\* is stored under.
C30_OwnRowOnly ==
    /\ [][\A k \in DOMAIN db :
             db'[k] # db[k] =>
                 /\ pc[k] \in {"create", "update", "fail_entry"}
                 /\ pc'[k] # pc[k]
                 /\ \A j \in DOMAIN db \ {k} :
                        db'[j] = db[j] /\ pc'[j] = pc[j]]_vars
    /\ [](\A k \in DOMAIN db : db[k] # PyNone => db[k].task_id = k)

\* one job has completed its row while the row of another job, created
\* before that update, is still as that job inserted it
C30_Witness ==
    \E j1 \in DOMAIN pc, j2 \in DOMAIN pc :
        /\ j1 # j2
        /\ db[j1] # PyNone /\ db[j1].status = "COMPLETED"
        /\ db[j2] # PyNone /\ db[j2] = TranscriptResult(j2, vet_input_of(j2))
        /\ pc[j2] = "extract"
        /\ status_log[j2] = <<"PENDING">>

(***************************************************************************)
(* Failure of the insert of the PENDING row                                *)
(***************************************************************************)
\* the insert of the PENDING row of job j raised: the only relational error
\* caught while the job has written no status
CreateFailed(j) == exc[j] = Exc("DbError") /\ status_log[j] = <<>>

Member(v) == PyEnum("str", PyStr(v))

\* the empty list and the one-element lists over S
UpToOne(S) == {PyList(<<>>)} \cup {PyList(<<e>>) : e \in S}

FollowUpTasks ==
    {PyModel("FollowUpTask",
         [description |-> PyStr("blood panel"), due_date |-> d,
          assigned_to |-> PyStr("Owner"), status |-> Member(st),
          context |-> PyNone]) : st \in TaskStatus, d \in {PyNone, PyDate("2025-07-22")}}

MedicationInstructions ==
    {PyModel("MedicationInstruction",
         [medication |-> PyStr("Rimadyl"), dosage |-> PyStr("2 mg/kg"),
          frequency |-> PyStr("daily"), duration |-> PyNone,
          route |-> r, conditions |-> PyNone]) :
        r \in {PyNone, Member("ORAL"), Member("TOPICAL")}}

ClientReminders ==
    {PyModel("ClientReminder",
         [description |-> PyStr("water intake"), priority |-> Member(p),
          category |-> Member(c)]) : p \in {"HIGH", "LOW"}, c \in {"LIFESTYLE", "OTHER"}}

VetToDos ==
    {PyModel("VetToDo",
         [description |-> PyStr("export notes"), due_date |-> PyNone,
          status |-> Member("PENDING"), related_task_id |-> PyNone])}

SOAPNotes ==
    {PyModel("SOAPNote",
         [subjective |-> PyStr("vomiting"), objective |-> PyStr("mild fever"),
          assessment |-> PyStr("gastroenteritis"), plan |-> PyStr("Cerenia"),
          note_type |-> Member(n), template_id |-> PyStr("SOAP_ER"),
          discharge_summary |-> PyNone]) : n \in {"SOAP", "SHIFT_SUMMARY"}}

VetOutputs ==
    {PyModel("VetOutput",
         [follow_up_tasks |-> f, medication_instructions |-> m,
          client_reminders |-> c, vet_todos |-> v, soap_notes |-> n,
          warnings |-> w]) :
        f \in UpToOne(FollowUpTasks), m \in UpToOne(MedicationInstructions),
        c \in UpToOne(ClientReminders), v \in UpToOne(VetToDos),
        n \in UpToOne(SOAPNotes), w \in UpToOne({PyStr("check dosage")})}

InitVetOutput ==
    /\ InitWrapper
    /\ InitFingerprint
    /\ InitClinics
    /\ InitJobs(ApiJobs)
    /\ redis = [k \in CacheKeys |-> PyNone]
    /\ obj \in VetOutputs \cup {model_dump(x) : x \in VetOutputs}
    /\ once = Unset
    /\ twice = Unset
    /\ vetclient_once = Unset

SpecVetOutput == InitVetOutput /\ [][NextSanitize]_vars

\* some mapping or model in x has an entry or a field named "value"
RECURSIVE HasValueKey(_)
HasValueKey(x) ==
    CASE x.t = "dict" ->
             "value" \in DOMAIN x.kv \/ \E k \in DOMAIN x.kv : HasValueKey(x.kv[k])
      [] x.t = "model" ->
             "value" \in DOMAIN x.fields
                 \/ \E k \in DOMAIN x.fields : HasValueKey(x.fields[k])
      [] x.t = "list" -> \E i \in 1..Len(x.items) : HasValueKey(x.items[i])
      [] OTHER -> FALSE

\* C32: for a value of the shape of VetOutput, which has no field named
\* "value", sanitizing the sanitized value returns it unchanged; so it is
\* for the revision of payload_sanitizer.py.
C32_IdempotentOnVetOutput ==
    ~HasValueKey(obj) =>
        /\ twice # Unset => twice = once
        /\ vetclient_once # Unset =>
               VetClient_sanitize_payload(vetclient_once) = vetclient_once

\* a VetOutput with a follow-up task, a medication and a reminder, sanitized
\* twice: the enum members have become their strings, the date is kept
C32_Witness ==
    /\ obj.t = "model"
    /\ Len(obj.fields["follow_up_tasks"].items) = 1
    /\ obj.fields["follow_up_tasks"].items[1].fields["due_date"].t = "date"
    /\ Len(obj.fields["medication_instructions"].items) = 1
    /\ Len(obj.fields["client_reminders"].items) = 1
    /\ twice # Unset
    /\ twice = once
    /\ vetclient_once = once
    /\ once # model_dump(obj)
    /\ once.kv["follow_up_tasks"].items[1].kv["status"].t = "str"
    /\ once.kv["follow_up_tasks"].items[1].kv["due_date"].t = "date"

\* C33: every call of sanitize_payload returns a value, in both revisions,
\* whatever the argument is built from; an argument that is not a mapping, a
\* sequence, an enum member or a model is returned as it is.
C33_Total ==
    /\ once # Unset =>
           /\ once.t # "exc"
           /\ obj.t \notin {"dict", "list", "enum", "model"} => once = obj
    /\ vetclient_once # Unset =>
           /\ vetclient_once.t # "exc"
           /\ obj.t \notin {"dict", "list", "enum", "model"} => vetclient_once = obj

\* the values of the members of the enum classes of schemas.py
SchemaEnumValues ==
    {"HIGH", "MEDIUM", "LOW", "PENDING", "COMPLETED", "CANCELLED",
     "ORAL", "TOPICAL", "INTRAVENOUS", "SUBCUTANEOUS", "OTHER",
     "SOAP", "DISCHARGE", "SHIFT_SUMMARY",
     "LIFESTYLE", "MEDICATION", "APPOINTMENT"}

\* every enum member in x is a member of a class of schemas.py
RECURSIVE OnlySchemaEnums(_)
OnlySchemaEnums(x) ==
    CASE x.t = "dict" -> \A k \in DOMAIN x.kv : OnlySchemaEnums(x.kv[k])
      [] x.t = "model" -> \A k \in DOMAIN x.fields : OnlySchemaEnums(x.fields[k])
      [] x.t = "list" -> \A i \in 1..Len(x.items) : OnlySchemaEnums(x.items[i])
      [] x.t = "enum" -> x.mixin = "str" /\ x.v.t = "str" /\ x.v.s \in SchemaEnumValues
      [] OTHER -> TRUE

\* C34: for a value of the shape of VetOutput, whose enum members have
\* strings in capitals as values, the revision of payload_sanitizer.py and
\* the revision of vet_transcript_processor.py return equal results.
C34_RevisionsCoincide ==
    /\ OnlySchemaEnums(obj)
    /\ ~HasValueKey(obj)
    /\ once # Unset
    /\ vetclient_once # Unset
    => /\ vetclient_once.t # "exc"
       /\ vetclient_once = once

\* a VetOutput with a reminder and a SOAP note of type SHIFT_SUMMARY: both
\* revisions have returned the dict with the members' strings
C34_Witness ==
    /\ obj.t = "model"
    /\ Len(obj.fields["client_reminders"].items) = 1
    /\ Len(obj.fields["soap_notes"].items) = 1
    /\ once # Unset
    /\ vetclient_once = once
    /\ once.kv["client_reminders"].items[1].kv["priority"] = PyStr("HIGH")
    /\ once.kv["soap_notes"].items[1].kv["note_type"] = PyStr("SHIFT_SUMMARY")

(***************************************************************************)
(* Sensitivity of the fingerprint: two jobs, the first submitted with      *)
(* InputA and the second with any of FingerprintInputs, on a cache that    *)
(* starts empty.                                                           *)
(***************************************************************************)
PairJobs == {1, 2}

InitPair ==
    /\ InitWrapper
    /\ InitSanitizer
    /\ InitFingerprint
    /\ InitClinics
    /\ InitJobs(PairJobs)
    /\ redis = [k \in {get_cache_key(VetInput(i)) : i \in FingerprintInputs} |-> PyNone]

NextPair ==
    \/ Submit(1, InputA)
    \/ \E input_data \in FingerprintInputs : Submit(2, input_data)
    \/ \E j \in PairJobs : Start(j)
    \/ \E j \in PairJobs : CacheGetHit(j)
    \/ \E j \in PairJobs : CacheGetMiss(j)
    \/ \E j \in PairJobs : CacheGetError(j)
    \/ \E j \in PairJobs : CreatePending(j)
    \/ \E j \in PairJobs : CreatePendingDbError(j)
    \/ \E j \in PairJobs : ExtractCall(j)
    \/ \E j \in PairJobs, r \in ExtractOutputs : ExtractReturn(j, r)
    \/ \E j \in PairJobs : ExtractRaise(j)
    \/ \E j \in PairJobs : UpdateCompleted(j)
    \/ \E j \in PairJobs : UpdateCompletedDbError(j)
    \/ \E j \in PairJobs : CacheSet(j)
    \/ \E j \in PairJobs : CacheSetError(j)
    \/ \E j \in PairJobs : FailEntry(j)
    \/ \E j \in PairJobs : FailEntryDbError(j)
    \/ \E k \in DOMAIN redis : Expire(k)

SpecPair == InitPair /\ [][NextPair]_vars

\* the fields in which the VetInput values of jobs j1 and j2 differ
Differing(j1, j2) ==
    {f \in VetInputFields : vet_input_of(j1)[f] # vet_input_of(j2)[f]}

\* job j has computed its cache key (line 76)
HasKey(j) == pc[j] \notin {"idle", "queued"} /\ exc[j] # Exc("ValidationError")

\* C35: two jobs whose VetInput values differ in the value of a field have
\* computed different cache keys, and a job that got a cache hit got a value
\* that a job with an equal VetInput wrote.
C35_FingerprintSensitivity ==
    /\ \A j1 \in PairJobs, j2 \in PairJobs :
           HasKey(j1) /\ HasKey(j2) /\ Differing(j1, j2) # {} =>
               cache_key_of(j1) # cache_key_of(j2)
    /\ \A j \in PairJobs :
           lookup[j] = "hit" =>
               \E j2 \in PairJobs \ {j} :
                   /\ setex[j2].outcome = "ok"
                   /\ setex[j2].value = cached[j]
                   /\ vet_input_of(j2) = vet_input_of(j)

\* job 2 differs from job 1 in the language alone; job 1 has cached its
\* result, and job 2 is at its lookup with nothing under its own key
C35_Witness ==
    /\ Differing(1, 2) = {"language"}
    /\ setex[1].outcome = "ok"
    /\ redis[cache_key_of(1)] # PyNone
    /\ pc[2] = "cache_get"
    /\ redis[cache_key_of(2)] = PyNone

(***************************************************************************)
(* The cache against the rows                                              *)
(***************************************************************************)
\* C36: whenever the cache holds a value under a key, the row of some job
\* whose input has that key is COMPLETED and its result is the value the
\* cache holds; and a job that is at its cache write, or has made it, has
\* its own row COMPLETED with the result it writes.
C36_CacheConsistency ==
    /\ \A k \in DOMAIN redis :
           redis[k] # PyNone =>
               \E j \in Jobs :
                   /\ db[j] # PyNone
                   /\ ValidInput(input[j]) /\ cache_key_of(j) = k
                   /\ db[j].status = "COMPLETED"
                   /\ json_dumps(db[j].result) = redis[k].value
    /\ \A j \in Jobs :
           pc[j] = "cache_set" \/ setex[j].outcome = "ok" =>
               /\ db[j] # PyNone
               /\ db[j].status = "COMPLETED"
               /\ db[j].result = sanitized_result[j]
               /\ status_log[j] = <<"PENDING", "COMPLETED">>

\* two jobs with the same input both missed the cache; the first cached the
\* result of OutputA, the second has overwritten it with that of OutputB:
\* the cache agrees with the second job's row and no longer with the first's
C36_Witness ==
    /\ input[1] = InputA /\ input[2] = InputA
    /\ db[1] # PyNone /\ db[1].status = "COMPLETED"
    /\ db[1].result = sanitize_payload(OutputA)
    /\ db[2] # PyNone /\ db[2].status = "COMPLETED"
    /\ db[2].result = sanitize_payload(OutputB)
    /\ setex[1].outcome = "ok" /\ setex[2].outcome = "ok"
    /\ redis[cache_key_of(1)] = CachedEntry(OutputB)

(***************************************************************************)
(* The status of a job that ended with a cache hit                         *)
(***************************************************************************)
\* the answer completed with the value job task_id read from the cache
CompletedFromCache(task_id) ==
    PyDict([status |-> PyStr("completed"),
            result |-> json_encode(json_loads(cached[task_id]))])

\* an attempt of get_task_status returns, for a job that has returned after
\* a cache hit
AnswersHitJob ==
    /\ status_call.pc = "attempt" /\ status_call'.pc = "done"
    /\ status_call'.error = PyNone
    /\ lookup[status_call.arg.n] = "hit"
    /\ pc[status_call.arg.n] = "returned"

\* C37 as stated: a query about a job that returned after a cache hit, which
\* has no row, is answered completed with the cached result.
C37_HitJobReportsCompleted ==
    [][AnswersHitJob =>
           /\ db[status_call.arg.n] = PyNone
           /\ status_call'.ret = CompletedFromCache(status_call.arg.n)]_vars

\* C37 amended: such a query is answered from what Celery holds for the job:
\* completed with the cached result as long as Celery keeps the job's result,
\* and processing once the result has expired.
C37_HitJobReportsCompletedUntilExpiry ==
    [][AnswersHitJob =>
           /\ db[status_call.arg.n] = PyNone
           /\ status_call'.ret.kv = SchedulerAnswer(celery[status_call.arg.n])
           /\ celery[status_call.arg.n].state = "SUCCESS" =>
                  status_call'.ret = CompletedFromCache(status_call.arg.n)
           /\ celery[status_call.arg.n].state # "SUCCESS" =>
                  status_call'.ret = PyDict([status |-> PyStr("processing")])]_vars

\* the job hit the cache and returned, Celery still holds its result, and
\* the query has been answered completed with the value of the cache entry
C37_Witness ==
    /\ lookup[1] = "hit" /\ pc[1] = "returned" /\ db[1] = PyNone
    /\ celery[1].state = "SUCCESS"
    /\ status_call.pc = "done" /\ status_call.error = PyNone
    /\ status_call.arg = PyInt(1)
    /\ status_call.ret = CompletedFromCache(1)
    /\ status_call.ret.kv.result = json_encode(json_loads(redis[cache_key_of(1)].value))

(***************************************************************************)
(* Termination.  Every call a job makes to Redis, Postgres or the          *)
(* extraction service returns or raises, and the worker goes on with the   *)
(* next statement: each job that can take a step eventually takes one.     *)
(* Submissions and the expiry of cache entries are under no obligation.    *)
(***************************************************************************)
\* a step of job j, from the worker picking it up to its return or raise
JobStep(j) ==
    \/ Start(j)
    \/ CacheGetHit(j)
    \/ CacheGetMiss(j)
    \/ CacheGetError(j)
    \/ CreatePending(j)
    \/ CreatePendingDbError(j)
    \/ ExtractCall(j)
    \/ \E r \in ExtractOutputs : ExtractReturn(j, r)
    \/ ExtractRaise(j)
    \/ UpdateCompleted(j)
    \/ UpdateCompletedDbError(j)
    \/ CacheSet(j)
    \/ CacheSetError(j)
    \/ FailEntry(j)
    \/ FailEntryDbError(j)

SpecLive == Init /\ [][Next]_vars /\ \A j \in Jobs : WF_vars(JobStep(j))

\* job j has been picked up by a worker
Started(j) == pc[j] \notin {"idle", "queued"}

\* the row of job j is PENDING
RowPending(j) == db[j] # PyNone /\ db[j].status = "PENDING"

\* every started job eventually returns or raises
JobsTerminate == \A j \in Jobs : Started(j) ~> Exited(j)

\* the handler of job j could not write: its own select or commit raised
\* and the job ended with that error, the row as it was
HandlerWriteFailed(j) ==
    /\ RowPending(j)
    /\ pc[j] = "raised"
    /\ celery[j].result = Exc("DbError")

\* the row a job created eventually leaves PENDING, unless the write of the
\* failure handler itself raised
NoRowStaysPending ==
    \A j \in Jobs : RowPending(j) ~> (~RowPending(j) \/ HandlerWriteFailed(j))

\* C38: every started job eventually returns or raises, and the row it
\* created does not stay PENDING forever (at least when the relational
\* store lets the handler write).
C38_Termination == JobsTerminate /\ NoRowStaysPending

====
